---------------------------- MODULE Spec2Model ----------------------------
(***************************************************************************)
(* State-machine model of the resilience layer of the ESP32 weather node:  *)
(*   - FirebaseManager  (firebase_manager.h): backup gate + circuit breaker *)
(*   - CloudManager     (cloud_manager.h):    upload and bounded retry      *)
(*   - WiFiManager      (wifi_manager.h):     connectivity state machine    *)
(* Time is the millisecond clock millis(), an unsigned 32-bit counter.     *)
(* Only delay() advances the clock inside a handler; between handler calls *)
(* the main loop lets time pass (Tick).                                    *)
(***************************************************************************)
EXTENDS Integers, Sequences, FiniteSets, TLC

VARIABLES
  now,                    \* millis(), in quanta of 4 ms (as every timestamp below)
  op,                     \* name of the step taken last
  ret,                    \* value returned by the call that op names (FALSE: no value)
  \* ---- FirebaseManager fields (firebase_manager.h:74-89)
  enabled, initialized, fbConnected, deviceID,
  lastBackupTime, readingCount,
  totalBackups, successfulBackups, failedBackups, consecutiveFailures,
  \* ---- FirebaseManager environment
  mac,                    \* the 6-byte hardware identifier WiFi.macAddress(mac) reports
  fbWrites,               \* store writes (kind, device id) issued by the step taken last
  fbInits,                \* number of initialize() calls made so far
  failStreak,             \* history: failed attempts since the last successful attempt
  \* ---- CloudManager (cloud_manager.h:15-17) and the position inside uploadWithRetry
  cmConnected,
  cmPc,                   \* position inside uploadWithRetry(): idle, attempt, backoff
  cmAttempt,              \* the loop variable attempt
  cmResults,              \* history: what each uploadData() of this call returned
  cmDelays,               \* history: the backoff delays of this call (quanta)
  cmCooldown,             \* history: total DNS cooldown inside this call's uploadData()s
  cmHttp,                 \* history: HTTP requests issued by this call
  cmStart,                \* history: clock when this call started
  cmLookups,              \* history: name resolutions made by this call
  cmLast,                 \* history: the last uploadData() call
  cmCalls,                \* history: number of uploadData() calls made on their own
  \* ---- WiFiManager fields (wifi_manager.h:46-58)
  currentStatus, retryCount, lastConnectionAttempt, lastStatusCheck,
  connectionStartTime, autoReconnect,
  totalConnectionAttempts, successfulConnections, failedConnections,
  totalConnectedTime, lastConnectedTime,
  \* ---- WiFiManager environment and the position inside connect()/update()
  linkUp,                 \* WiFi.status() == WL_CONNECTED
  wfPc,                   \* position inside connect()/update(): idle, attempt,
                          \* retryDelay, autoReconnect
  startAttempt,           \* the local startAttempt of attemptConnection()
  attemptsMade,           \* history: attemptConnection() calls of the current connect()
  wfCaller,               \* history: who called the current connect()
  disconnectedBy,         \* history: what set the state to Disconnected last
  \* ---- SensorSimulator fields (sensor_simulate.h:116-149); sensor values are kept
  \* in hundredths of their unit
  tempBuffer, humidBuffer, pressureBuffer, luxBuffer, gasBuffer, bufferIndex,
  lastSensorRead, lastPrediction, simulationStartTime,
  totalReadings, totalPredictions, totalCloudUploads, successfulUploads, failedUploads,
  predictionCounts, isRunning, wifiAvailable,
  \* ---- SensorSimulator environment and history
  stream,                 \* which sequence of sensor values the run is fed
  readingsEver,           \* history: readings taken since boot
  written,                \* history: buffer slots written since the last start()
  avg,                    \* the averages computed by the last makePrediction()
  scaledFeatures,         \* the feature vector computed last
  predictedClass,         \* the class the classifier returned last
  simCycle,               \* history: what the last makePrediction() did with the sinks
  simStarts,              \* history: number of start() calls that started a run
  \* ---- SensorTest (sensor_test.h:47) and the position inside run()
  sensorsInitialized,
  stPc,                   \* position inside run(): idle, upload, backup
  stRuns,                 \* history: number of run() calls
  stCycle,                \* history: what the last run() did with the sinks
  rawInput                \* the raw values handed to scale_features() last

fbVars == <<enabled, initialized, fbConnected, deviceID, lastBackupTime, readingCount,
            totalBackups, successfulBackups, failedBackups, consecutiveFailures,
            mac, fbWrites, fbInits, failStreak>>
cmVars == <<cmConnected, cmPc, cmAttempt, cmResults, cmDelays, cmCooldown, cmHttp, cmStart,
            cmLookups, cmLast, cmCalls>>
wfVars == <<currentStatus, retryCount, lastConnectionAttempt, lastStatusCheck,
            connectionStartTime, autoReconnect,
            totalConnectionAttempts, successfulConnections, failedConnections,
            totalConnectedTime, lastConnectedTime,
            wfPc, startAttempt, attemptsMade, wfCaller, disconnectedBy>>
stVars == <<sensorsInitialized, stPc, stRuns, stCycle>>
simVars == <<tempBuffer, humidBuffer, pressureBuffer, luxBuffer, gasBuffer, bufferIndex,
             lastSensorRead, lastPrediction, simulationStartTime,
             totalReadings, totalPredictions, totalCloudUploads, successfulUploads,
             failedUploads, predictionCounts, isRunning, wifiAvailable,
             stream, readingsEver, written, avg, scaledFeatures, predictedClass,
             simCycle, simStarts, rawInput, stVars>>
vars == <<now, op, ret, fbVars, cmVars, wfVars, simVars, linkUp>>

----------------------------------------------------------------------------
(* Bounds of the model                                                     *)

\* the main loop lets time pass (Tick) only up to MaxClockSec seconds on the clock
\* where the sinks are driven, up to WfMaxClockSec where the connectivity manager is
MaxClockSec == 170
WfMaxClockSec == 40

\* initialize() is called at most MaxInits times
MaxInits == 2

\* the session across the wrap of the clock: seconds before the wrap at which it
\* begins, seconds it lasts
WrapLeadSec == 18
WrapSpanSec == 40

\* seconds on the clock after which no time passes in the specification of the
\* routines that write to the store
StoreMaxClockSec == 47

\* connect() gets past its guard at most MaxConnects times
MaxConnects == 2

\* where the simulator is driven, the main loop lets time pass up to SimMaxClockSec
\* seconds on the clock
SimMaxClockSec == 31

\* start() starts a run at most MaxStarts times
MaxStarts == 2

\* run() calls of the sensor test
MaxRuns == 2

\* uploadData() calls made on their own
MaxUploads == 1

----------------------------------------------------------------------------
(* The millisecond clock. millis() and every timestamp derived from it is  *)
(* an unsigned long (32 bits) and wraps at 2^32 ms. Every delay and every  *)
(* interval of the program is a multiple of 4 ms, so the model keeps time  *)
(* in quanta of 4 ms: 2^32 ms are exactly 2^30 quanta, and arithmetic      *)
(* modulo 2^30 on quanta is arithmetic modulo 2^32 on milliseconds.        *)

\* 2^30 quanta = 2^32 ms
ClockWrap == 1024 * 1024 * 1024

\* a duration given in milliseconds, in quanta
Ms(t) == t \div 4

\* unsigned addition and subtraction of two times (in quanta)
AddT(a, b) == (a + b) % ClockWrap
SubT_Signed(a, b) == a - b
SubT(a, b) == (a - b + ClockWrap) % ClockWrap

\* the clock bounds, in quanta
MaxClock == Ms(MaxClockSec * 1000)
WfMaxClock == Ms(WfMaxClockSec * 1000)
SimMaxClock == Ms(SimMaxClockSec * 1000)
StoreMaxClock == Ms(StoreMaxClockSec * 1000)

\* the clock value at which the session across the wrap of millis() begins, a little
\* more than WrapLeadSec before the wrap, and the length of that session
WrapStart == ClockWrap - Ms(WrapLeadSec * 1000) - 1
WrapSpan == Ms(WrapSpanSec * 1000)

\* the time between two calls in that session (ms): the caller's loop is slow
WrapTickSteps == {5000}

\* time the main loop lets pass between two handler calls (ms)
FbTickSteps == {15000}
CmTickSteps == {15000}
WfTickSteps == {10000}
SimTickSteps == {1000}
SimIdleSteps == {15000}
TestIdleSteps == {5000}

----------------------------------------------------------------------------
(* FirebaseManager (firebase_manager.h)                                    *)

BACKUP_INTERVAL == 15000
MAX_FAILED_UPLOADS == 10
FB_READY_POLLS == 40
FB_POLL_DELAY == 500
FB_SETTLE_DELAY == 500

\* hardware identifiers the build may run on
Macs == { <<36, 111, 40, 171, 205, 239>>, <<0, 1, 2, 3, 4, 5>> }

\* number of 500 ms polls initialize() spends waiting for the token
InitPolls == {0, FB_READY_POLLS}

HexDigit(d) ==
  <<"0","1","2","3","4","5","6","7","8","9","A","B","C","D","E","F">>[d + 1]

\* "%02X" of one byte
Hex2(b) == <<HexDigit(b \div 16), HexDigit(b % 16)>>

\* generateDeviceID(): the six bytes of the MAC as 12 upper-case hex characters
GenerateDeviceID(m) ==
  Hex2(m[1]) \o Hex2(m[2]) \o Hex2(m[3]) \o Hex2(m[4]) \o Hex2(m[5]) \o Hex2(m[6])

\* mutants of shouldBackup(): the initialization test left out; the breaker test
\* left out; the interval test strict
ShouldBackup_Uninitialized(t) ==
  IF ~enabled THEN FALSE
  ELSE IF consecutiveFailures >= MAX_FAILED_UPLOADS THEN FALSE
  ELSE SubT(t, lastBackupTime) >= Ms(BACKUP_INTERVAL)

ShouldBackup_NoBreaker(t) ==
  IF ~enabled \/ ~initialized THEN FALSE
  ELSE SubT(t, lastBackupTime) >= Ms(BACKUP_INTERVAL)

ShouldBackup_Strict(t) ==
  IF ~enabled \/ ~initialized THEN FALSE
  ELSE IF consecutiveFailures >= MAX_FAILED_UPLOADS THEN FALSE
  ELSE SubT(t, lastBackupTime) > Ms(BACKUP_INTERVAL)

\* shouldBackup() evaluated at clock value t
ShouldBackup(t) ==
  IF ~enabled \/ ~initialized THEN FALSE
  ELSE IF consecutiveFailures >= MAX_FAILED_UPLOADS THEN FALSE
  ELSE SubT(t, lastBackupTime) >= Ms(BACKUP_INTERVAL)

\* mutant of onBackupSuccess(): the consecutive counter is not reset
OnBackupSuccess_NoReset ==
  /\ successfulBackups' = successfulBackups + 1
  /\ UNCHANGED <<consecutiveFailures, failedBackups>>

\* onBackupSuccess()
OnBackupSuccess ==
  /\ successfulBackups' = successfulBackups + 1
  /\ consecutiveFailures' = 0
  /\ UNCHANGED failedBackups

\* onBackupFailed()
OnBackupFailed ==
  /\ failedBackups' = failedBackups + 1
  /\ consecutiveFailures' = consecutiveFailures + 1
  /\ UNCHANGED successfulBackups

\* body shared by backupData() and backupDataWithGas(), called at clock value t:
\* ready is what Firebase.ready() answers, ok what Firebase.RTDB.setJSON() answers.
\* BackupResult is the value returned, BackupEffects what the call does to the manager
BackupResult(t, ready, ok) == ShouldBackup(t) /\ ready /\ ok

\* mutant of the shared body: lastBackupTime is recorded when the write has succeeded
BackupEffects_StampOnSuccess(t, ready, ok) ==
  /\ UNCHANGED <<enabled, initialized, fbConnected, deviceID, mac, fbInits>>
  /\ IF ~ShouldBackup(t)
       THEN /\ fbWrites' = {}
            /\ UNCHANGED <<lastBackupTime, readingCount, totalBackups,
                           successfulBackups, failedBackups, consecutiveFailures,
                           failStreak>>
       ELSE /\ lastBackupTime' = (IF ready /\ ok THEN t ELSE lastBackupTime)
            /\ failStreak' = (IF ready /\ ok THEN 0 ELSE failStreak + 1)
            /\ totalBackups' = totalBackups + 1
            /\ readingCount' = readingCount + 1
            /\ IF ~ready
                 THEN /\ OnBackupFailed
                      /\ fbWrites' = {}
                 ELSE /\ fbWrites' = {<<"readings", deviceID>>}
                      /\ IF ok THEN OnBackupSuccess ELSE OnBackupFailed

\* mutant of the shared body: the attempt is counted before the gate is tested
BackupEffects_CountFirst(t, ready, ok) ==
  /\ UNCHANGED <<enabled, initialized, fbConnected, deviceID, mac, fbInits>>
  /\ totalBackups' = totalBackups + 1
  /\ readingCount' = readingCount + 1
  /\ IF ~ShouldBackup(t)
       THEN /\ fbWrites' = {}
            /\ UNCHANGED <<lastBackupTime, successfulBackups, failedBackups,
                           consecutiveFailures, failStreak>>
       ELSE /\ lastBackupTime' = t
            /\ failStreak' = (IF ready /\ ok THEN 0 ELSE failStreak + 1)
            /\ IF ~ready
                 THEN /\ OnBackupFailed
                      /\ fbWrites' = {}
                 ELSE /\ fbWrites' = {<<"readings", deviceID>>}
                      /\ IF ok THEN OnBackupSuccess ELSE OnBackupFailed

BackupEffects(t, ready, ok) ==
  /\ UNCHANGED <<enabled, initialized, fbConnected, deviceID, mac, fbInits>>
  /\ IF ~ShouldBackup(t)
       THEN /\ fbWrites' = {}
            /\ UNCHANGED <<lastBackupTime, readingCount, totalBackups,
                           successfulBackups, failedBackups, consecutiveFailures,
                           failStreak>>
       ELSE /\ lastBackupTime' = t
            /\ failStreak' = (IF ready /\ ok THEN 0 ELSE failStreak + 1)
            /\ totalBackups' = totalBackups + 1
            /\ readingCount' = readingCount + 1
            /\ IF ~ready
                 THEN /\ OnBackupFailed
                      /\ fbWrites' = {}
                 ELSE /\ fbWrites' = {<<"readings", deviceID>>}
                      /\ IF ok THEN OnBackupSuccess ELSE OnBackupFailed

Backup(name, ready, ok) ==
  /\ op' = name
  /\ ret' = BackupResult(now, ready, ok)
  /\ UNCHANGED now
  /\ BackupEffects(now, ready, ok)

BackupData ==
  /\ \E ready, ok \in BOOLEAN : Backup("backupData", ready, ok)
  /\ UNCHANGED <<cmVars, wfVars, simVars, linkUp>>

BackupDataWithGas ==
  /\ \E ready, ok \in BOOLEAN : Backup("backupDataWithGas", ready, ok)
  /\ UNCHANGED <<cmVars, wfVars, simVars, linkUp>>

\* initialize(): k polls of the wait loop (all FB_READY_POLLS of them when the store
\* does not get ready), r1/r2/r3 the answers of Firebase.ready() at line 158, in
\* saveDeviceInfo() and in updateDeviceStatus()
FbInitialize ==
  \E k \in InitPolls, r1, r2, r3 \in BOOLEAN :
    LET id == GenerateDeviceID(mac)
        waited == IF enabled THEN Ms(k * FB_POLL_DELAY + FB_SETTLE_DELAY)
                            ELSE Ms(FB_SETTLE_DELAY)
    IN /\ fbInits < MaxInits
       /\ ~r1 => k = FB_READY_POLLS
       /\ fbInits' = fbInits + 1
       /\ op' = "initialize"
       /\ ret' = FALSE
       /\ deviceID' = id
       /\ now' = AddT(now, waited)
       /\ IF ~enabled
            THEN /\ initialized' = TRUE
                 /\ fbConnected' = FALSE
                 /\ fbWrites' = {}
            ELSE IF r1
              THEN /\ initialized' = TRUE
                   /\ fbConnected' = TRUE
                   /\ fbWrites' = (IF r2 THEN {<<"info", id>>} ELSE {})
                                    \cup (IF r3 THEN {<<"status", id>>} ELSE {})
              ELSE /\ fbWrites' = {}
                   /\ UNCHANGED <<initialized, fbConnected>>
       /\ UNCHANGED <<enabled, mac, lastBackupTime, readingCount, totalBackups,
                      successfulBackups, failedBackups, consecutiveFailures, failStreak>>
       /\ UNCHANGED <<cmVars, wfVars, simVars, linkUp>>

\* what a call of saveDeviceInfo() or updateDeviceStatus() from the program does to
\* the manager: nothing but the write, made when the manager is initialized and
\* enabled and Firebase.ready() answers true
DeviceWrite(kind, ready) ==
  /\ fbWrites' = (IF initialized /\ enabled /\ ready THEN {<<kind, deviceID>>} ELSE {})
  /\ UNCHANGED <<now, enabled, initialized, fbConnected, deviceID, mac, fbInits,
                 lastBackupTime, readingCount, totalBackups, successfulBackups, failedBackups,
                 consecutiveFailures, failStreak>>
  /\ UNCHANGED <<cmVars, wfVars, simVars, linkUp>>

\* saveDeviceInfo(): ok is what Firebase.RTDB.setJSON() answers
FbSaveDeviceInfo ==
  \E ready, ok \in BOOLEAN :
    /\ op' = "saveDeviceInfo"
    /\ ret' = (initialized /\ enabled /\ ready /\ ok)
    /\ DeviceWrite("info", ready)

\* updateDeviceStatus()
FbUpdateDeviceStatus ==
  \E ready \in BOOLEAN :
    /\ op' = "updateDeviceStatus"
    /\ ret' = FALSE
    /\ DeviceWrite("status", ready)

\* a call of shouldBackup() by itself
FbShouldBackup ==
  /\ op' = "shouldBackup"
  /\ ret' = ShouldBackup(now)
  /\ fbWrites' = {}
  /\ UNCHANGED <<now, enabled, initialized, fbConnected, deviceID, mac, fbInits,
                 lastBackupTime, readingCount, totalBackups, successfulBackups, failedBackups,
                 consecutiveFailures, failStreak>>
  /\ UNCHANGED <<cmVars, wfVars, simVars, linkUp>>

----------------------------------------------------------------------------
(* CloudManager (cloud_manager.h)                                          *)

CM_MAX_RETRIES == 3
CM_BACKOFF_BASE_MS == 2000
CM_DNS_COOLDOWN_MS == 2000
CM_TEST_DELAY_MS == 1000

\* what http.GET() may answer: a transport error or an HTTP status
HttpCodes == {-1, 200, 201, 404, 500}

\* uploadData(): dns is what WiFi.hostByName() answers, code what http.GET() answers.
\* ok: the value returned; cooldown: the delay made (ms); http: a request was issued;
\* lookups: a name resolution was made
\* mutant of uploadData(): the name is resolved before the link is looked at
UploadData_DnsFirst(dns, code) ==
  IF ~dns
    THEN [ok |-> FALSE, code |-> 0, path |-> "dns", cooldown |-> CM_DNS_COOLDOWN_MS, http |-> 0,
          lookups |-> 1]
  ELSE IF ~linkUp
    THEN [ok |-> FALSE, code |-> 0, path |-> "nolink", cooldown |-> 0, http |-> 0, lookups |-> 1]
  ELSE [ok |-> (code > 0 /\ code = 200), code |-> code, path |-> "http", cooldown |-> 0, http |-> 1,
        lookups |-> 1]

UploadData(dns, code) ==
  IF ~linkUp
    THEN [ok |-> FALSE, code |-> 0, path |-> "nolink", cooldown |-> 0, http |-> 0, lookups |-> 0]
  ELSE IF ~dns
    THEN [ok |-> FALSE, code |-> 0, path |-> "dns", cooldown |-> CM_DNS_COOLDOWN_MS, http |-> 0,
          lookups |-> 1]
  ELSE [ok |-> (code > 0 /\ code = 200), code |-> code, path |-> "http", cooldown |-> 0, http |-> 1,
        lookups |-> 1]

\* what the history of uploadData() calls holds before the first call
NoUpload == [ok |-> FALSE, code |-> 0, path |-> "none", cooldown |-> 0, http |-> 0, lookups |-> 0]

\* uploadData() called on its own, while no simulation run is on
CmUploadData ==
  /\ cmPc = "idle" /\ wfPc = "idle" /\ stPc = "idle"
  /\ ~isRunning
  /\ cmCalls < MaxUploads
  /\ cmCalls' = cmCalls + 1
  /\ op' = "uploadData"
  /\ \E dns \in BOOLEAN, code \in HttpCodes :
       LET r == UploadData(dns, code) IN
       /\ now + Ms(r.cooldown) <= SimMaxClock
       /\ now' = AddT(now, Ms(r.cooldown))
       /\ cmLast' = r
       /\ ret' = r.ok
  /\ UNCHANGED <<cmConnected, cmPc, cmAttempt, cmResults, cmDelays, cmCooldown, cmHttp,
                 cmStart, cmLookups>>
  /\ UNCHANGED <<fbVars, simVars, wfVars, linkUp>>

\* what a testConnection() call met: where it ended (link test, name resolution,
\* HTTP request) and whether the request was answered
Probe(answered, path) ==
  [ok |-> answered, code |-> 0, path |-> path, cooldown |-> 0,
   http |-> (IF path = "http" THEN 1 ELSE 0), lookups |-> (IF path = "nolink" THEN 0 ELSE 1)]

\* testConnection(): the cached flag is set when the request gets any HTTP answer
CmTestConnection ==
  /\ cmPc = "idle" /\ wfPc = "idle" /\ stPc = "idle"
  /\ now + Ms(CM_TEST_DELAY_MS) <= SimMaxClock
  /\ op' = "testConnection"
  /\ \E dns \in BOOLEAN, code \in HttpCodes :
       IF ~linkUp \/ ~dns
         THEN /\ ret' = FALSE
              /\ cmLast' = Probe(FALSE, IF linkUp THEN "dns" ELSE "nolink")
              /\ UNCHANGED <<now, cmConnected>>
         ELSE /\ cmConnected' = (cmConnected \/ code > 0)
              /\ cmLast' = Probe(code > 0, "http")
              /\ now' = AddT(now, Ms(CM_TEST_DELAY_MS))
              /\ ret' = cmConnected'
  /\ UNCHANGED <<cmPc, cmAttempt, cmResults, cmDelays, cmCooldown, cmHttp, cmStart,
                 cmLookups, cmCalls>>
  /\ UNCHANGED <<fbVars, simVars, wfVars, linkUp>>

\* mutants of the backoff of uploadWithRetry(): a constant delay; a wait after the
\* last attempt as well
BackoffDelay_Constant(attempt) == CM_BACKOFF_BASE_MS

\* the backoff delay after failed attempt number attempt (ms)
BackoffDelay(attempt) == CM_BACKOFF_BASE_MS * attempt

\* longest time one uploadWithRetry() call can take (ms)
CmWorstCase ==
  CM_MAX_RETRIES * CM_DNS_COOLDOWN_MS
    + BackoffDelay(1) + BackoffDelay(2)

\* uploadWithRetry() is entered at clock value t: the loop starts with attempt = 1
UploadWithRetryEnter(t) ==
  /\ cmPc' = "attempt"
  /\ cmAttempt' = 1
  /\ cmResults' = <<>>
  /\ cmDelays' = <<>>
  /\ cmCooldown' = 0
  /\ cmHttp' = 0
  /\ cmLookups' = 0
  /\ cmStart' = t
  /\ UNCHANGED <<cmConnected, cmLast, cmCalls>>

\* uploadWithRetry() is called
CmUploadWithRetry ==
  /\ cmPc = "idle" /\ wfPc = "idle"
  /\ now + Ms(CmWorstCase) <= MaxClock
  /\ UploadWithRetryEnter(now)
  /\ op' = "uploadWithRetry"
  /\ ret' = FALSE
  /\ UNCHANGED <<now, fbVars, simVars, wfVars, linkUp>>

\* mutant of the retry test: one more retry is allowed
MoreAttempts_OffByOne == cmAttempt <= CM_MAX_RETRIES

\* the test attempt < MAX_RETRIES after a failed attempt
MoreAttempts == cmAttempt < CM_MAX_RETRIES

\* one pass of the loop body: uploadData() is called; on success the call returns
\* true; on failure it goes to the backoff delay, or after the last attempt
\* leaves the loop and returns false
CmAttemptStep ==
  \E dns \in BOOLEAN, code \in HttpCodes :
    LET r == UploadData(dns, code) IN
    /\ cmPc = "attempt"
    /\ cmResults' = Append(cmResults, r.ok)
    /\ cmCooldown' = cmCooldown + Ms(r.cooldown)
    /\ cmHttp' = cmHttp + r.http
    /\ cmLookups' = cmLookups + r.lookups
    /\ cmLast' = r
    /\ now' = AddT(now, Ms(r.cooldown))
    /\ IF r.ok
         THEN /\ cmPc' = "idle"
              /\ op' = "uploadWithRetry.return"
              /\ ret' = TRUE
              /\ UNCHANGED cmAttempt
         ELSE IF MoreAttempts
           THEN /\ cmPc' = "backoff"
                /\ op' = "uploadWithRetry.failed"
                /\ ret' = FALSE
                /\ UNCHANGED cmAttempt
           ELSE /\ cmPc' = "idle"
                /\ cmAttempt' = cmAttempt + 1
                /\ op' = "uploadWithRetry.return"
                /\ ret' = FALSE
    /\ UNCHANGED <<cmConnected, cmDelays, cmStart, cmCalls, fbVars, simVars, wfVars,
                 linkUp>>

\* delay(backoffDelay), then the next pass of the loop
CmBackoffStep ==
  /\ cmPc = "backoff"
  /\ now' = AddT(now, Ms(BackoffDelay(cmAttempt)))
  /\ cmDelays' = Append(cmDelays, Ms(BackoffDelay(cmAttempt)))
  /\ cmAttempt' = cmAttempt + 1
  /\ cmPc' = "attempt"
  /\ op' = "uploadWithRetry.backoff"
  /\ ret' = FALSE
  /\ UNCHANGED <<cmConnected, cmResults, cmCooldown, cmHttp, cmLookups, cmLast, cmCalls,
                 cmStart, fbVars, simVars, wfVars, linkUp>>

\* the link changes while uploadWithRetry() is in progress
CmLinkChange ==
  /\ cmPc # "idle"
  /\ linkUp' = ~linkUp
  /\ op' = "linkChange"
  /\ ret' = FALSE
  /\ UNCHANGED <<now, fbVars, simVars, cmVars, wfVars>>

----------------------------------------------------------------------------
(* WiFiManager (wifi_manager.h)                                            *)

WIFI_TIMEOUT_MS == 20000
WIFI_RETRY_DELAY_MS == 5000
MAX_WIFI_RETRIES == 5
WIFI_CHECK_INTERVAL == 10000
WIFI_POLL_MS == 500
WIFI_SETTLE_MS == 100

\* when, after the start of the wait loop, the transport gets the link (ms); a value
\* above WIFI_TIMEOUT_MS: not during this attempt
LinkArrivals == {0, 19800, 30000}

\* the wait loop of attemptConnection(): while the link is not up and less than
\* WIFI_TIMEOUT_MS have elapsed, delay(500). The value is the time elapsed when the
\* loop is left (ms); upAt is when the link comes up
RECURSIVE WaitLoop(_, _)
WaitLoop(elapsed, upAt) ==
  IF upAt > elapsed /\ elapsed < WIFI_TIMEOUT_MS
    THEN WaitLoop(elapsed + WIFI_POLL_MS, upAt)
    ELSE elapsed

\* attemptConnection() up to its wait loop, entered at time t with retryCount rc:
\* the counter, the timestamp, WiFi.disconnect(), delay(100), WiFi.begin()
AttemptConnectionEnter(rc, t) ==
  /\ retryCount' = rc + 1
  /\ lastConnectionAttempt' = t
  /\ linkUp' = FALSE
  /\ now' = AddT(t, Ms(WIFI_SETTLE_MS))
  /\ startAttempt' = AddT(t, Ms(WIFI_SETTLE_MS))
  /\ attemptsMade' = (IF rc = 0 THEN 1 ELSE attemptsMade + 1)
  /\ wfPc' = "attempt"

\* begin(), called once from the set-up of the program before anything else: the
\* callback is stored, WiFi.disconnect(true), two delays of WIFI_SETTLE_MS
WfBegin ==
  /\ op = "boot"
  /\ wfPc = "idle" /\ cmPc = "idle"
  /\ linkUp' = FALSE
  /\ now' = AddT(now, Ms(2 * WIFI_SETTLE_MS))
  /\ op' = "begin"
  /\ ret' = FALSE
  /\ UNCHANGED <<wfVars, fbVars, simVars, cmVars>>

\* mutant of connect(): the test for a connection in progress left out
Connect_NoGuard(caller) ==
  /\ currentStatus' = "CONNECTING"
  /\ totalConnectionAttempts' = totalConnectionAttempts + 1
  /\ connectionStartTime' = now
  /\ AttemptConnectionEnter(0, now)
  /\ wfCaller' = caller
  /\ op' = "connect"
  /\ ret' = FALSE
  /\ UNCHANGED <<lastStatusCheck, autoReconnect, successfulConnections,
                 failedConnections, totalConnectedTime, lastConnectedTime,
                 disconnectedBy>>

\* connect(), up to the wait loop of its first attempt
Connect(caller) ==
  IF currentStatus = "CONNECTING"
    THEN /\ op' = "connect.busy"
         /\ ret' = FALSE
         /\ UNCHANGED <<now, linkUp, wfVars>>
    ELSE /\ currentStatus' = "CONNECTING"
         /\ totalConnectionAttempts' = totalConnectionAttempts + 1
         /\ connectionStartTime' = now
         /\ AttemptConnectionEnter(0, now)
         /\ wfCaller' = caller
         /\ op' = "connect"
         /\ ret' = FALSE
         /\ UNCHANGED <<lastStatusCheck, autoReconnect, successfulConnections,
                        failedConnections, totalConnectedTime, lastConnectedTime,
                        disconnectedBy>>

\* connect() called from the main program
WfConnect ==
  /\ wfPc = "idle" /\ cmPc = "idle"
  /\ totalConnectionAttempts < MaxConnects
  /\ Connect("user")
  /\ UNCHANGED <<fbVars, simVars, cmVars>>

\* connect() called from the LED callback that attemptConnection() invokes while
\* the first attempt of a connect() is waiting for the link
WfLedCallbackConnect ==
  /\ wfPc = "attempt"
  /\ currentStatus = "CONNECTING"
  /\ totalConnectionAttempts < MaxConnects
  /\ Connect("callback")
  /\ UNCHANGED <<fbVars, simVars, cmVars>>

\* mutant of onConnectionFailed(): one retry too many
RetryAllowed_OffByOne == retryCount <= MAX_WIFI_RETRIES

\* the test of onConnectionFailed(): another attempt is made
RetryAllowed == retryCount < MAX_WIFI_RETRIES

\* the wait loop of attemptConnection() runs to its end, then onConnectionSuccess()
\* or onConnectionFailed() up to its delay; connect() returns what its first
\* attemptConnection() returns
WfAttemptWait ==
  \E upAt \in LinkArrivals :
    LET elapsed == WaitLoop(0, upAt)
        t == AddT(now, Ms(elapsed))
        up == upAt <= elapsed
    IN /\ wfPc = "attempt"
       /\ now' = t
       /\ linkUp' = up
       /\ IF up
            THEN /\ currentStatus' = "CONNECTED"
                 /\ successfulConnections' = successfulConnections + 1
                 /\ lastConnectedTime' = t
                 /\ wfPc' = "idle"
                 /\ op' = "connect.return"
                 /\ ret' = (attemptsMade = 1)
                 /\ UNCHANGED failedConnections
            ELSE IF RetryAllowed
              THEN /\ currentStatus' = "RECONNECTING"
                   /\ wfPc' = "retryDelay"
                   /\ op' = "connect.attemptFailed"
                   /\ ret' = FALSE
                   /\ UNCHANGED <<successfulConnections, failedConnections,
                                  lastConnectedTime>>
              ELSE /\ currentStatus' = "FAILED"
                   /\ failedConnections' = failedConnections + 1
                   /\ wfPc' = "idle"
                   /\ op' = "connect.return"
                   /\ ret' = FALSE
                   /\ UNCHANGED <<successfulConnections, lastConnectedTime>>
       /\ UNCHANGED <<retryCount, lastConnectionAttempt, lastStatusCheck,
                      connectionStartTime, autoReconnect, totalConnectionAttempts,
                      totalConnectedTime, startAttempt, attemptsMade, wfCaller,
                      disconnectedBy>>
       /\ UNCHANGED <<fbVars, simVars, cmVars>>

\* onConnectionFailed(): delay(WIFI_RETRY_DELAY_MS), then attemptConnection() again
WfRetryDelay ==
  /\ wfPc = "retryDelay"
  /\ AttemptConnectionEnter(retryCount, AddT(now, Ms(WIFI_RETRY_DELAY_MS)))
  /\ op' = "connect.retry"
  /\ ret' = FALSE
  /\ UNCHANGED <<currentStatus, lastStatusCheck, connectionStartTime, autoReconnect,
                 totalConnectionAttempts, successfulConnections, failedConnections,
                 totalConnectedTime, lastConnectedTime, wfCaller, disconnectedBy>>
  /\ UNCHANGED <<fbVars, simVars, cmVars>>

\* mutant of the connected-time accounting: the total is replaced by the session
AccumulateConnectedTime_LastSession == SubT(now, lastConnectedTime)

\* totalConnectedTime += (millis() - lastConnectedTime), in onDisconnected() and in
\* disconnect()
AccumulateConnectedTime == AddT(totalConnectedTime, SubT(now, lastConnectedTime))

\* mutant of the interval test of update(): a check on every call
CheckDue_Always == TRUE

\* the interval test of update()
CheckDue == ~(SubT(now, lastStatusCheck) < Ms(WIFI_CHECK_INTERVAL))

\* mutant of the health check of update(): Failed is treated like Connected
StatusAfterCheck_FailedToo ==
  IF currentStatus \in {"CONNECTED", "FAILED"} /\ ~linkUp
    THEN "DISCONNECTED" ELSE currentStatus

\* the state after onDisconnected() when update() sees the link lost
StatusAfterCheck ==
  IF currentStatus = "CONNECTED" /\ ~linkUp THEN "DISCONNECTED" ELSE currentStatus

\* mutant of the auto-reconnect test of update(): the flag is not consulted
ReconnectDue_IgnoresFlag == StatusAfterCheck = "DISCONNECTED"

\* the auto-reconnect test of update(), made after the health check
ReconnectDue == autoReconnect /\ StatusAfterCheck = "DISCONNECTED"

\* update() up to its call of connect(): the interval test, the health check with
\* onDisconnected(), the auto-reconnect test
WfUpdate ==
  /\ wfPc = "idle" /\ cmPc = "idle"
  /\ op' = "update"
  /\ ret' = FALSE
  /\ IF ~CheckDue
       THEN UNCHANGED <<lastStatusCheck, currentStatus, totalConnectedTime, wfPc,
                        disconnectedBy>>
       ELSE /\ lastStatusCheck' = now
            /\ disconnectedBy' = (IF currentStatus = "CONNECTED" /\ ~linkUp
                                    THEN "update" ELSE disconnectedBy)
            /\ currentStatus' = StatusAfterCheck
            /\ totalConnectedTime' =
                 (IF currentStatus = "CONNECTED" /\ ~linkUp
                    THEN AccumulateConnectedTime
                    ELSE totalConnectedTime)
            /\ IF ReconnectDue
                 THEN /\ totalConnectionAttempts < MaxConnects
                      /\ wfPc' = "autoReconnect"
                 ELSE wfPc' = "idle"
  /\ UNCHANGED <<now, linkUp, retryCount, lastConnectionAttempt, connectionStartTime,
                 autoReconnect, totalConnectionAttempts, successfulConnections,
                 failedConnections, lastConnectedTime, startAttempt, attemptsMade,
                 wfCaller>>
  /\ UNCHANGED <<fbVars, simVars, cmVars>>

\* update() calls connect()
WfAutoReconnect ==
  /\ wfPc = "autoReconnect"
  /\ Connect("update")
  /\ UNCHANGED <<fbVars, simVars, cmVars>>

\* disconnect()
WfDisconnect ==
  /\ wfPc = "idle" /\ cmPc = "idle"
  /\ totalConnectedTime' =
       (IF currentStatus = "CONNECTED"
          THEN AccumulateConnectedTime
          ELSE totalConnectedTime)
  /\ linkUp' = FALSE
  /\ currentStatus' = "DISCONNECTED"
  /\ disconnectedBy' = "disconnect"
  /\ op' = "disconnect"
  /\ ret' = FALSE
  /\ UNCHANGED <<now, retryCount, lastConnectionAttempt, lastStatusCheck,
                 connectionStartTime, autoReconnect, totalConnectionAttempts,
                 successfulConnections, failedConnections, lastConnectedTime,
                 wfPc, startAttempt, attemptsMade, wfCaller>>
  /\ UNCHANGED <<fbVars, simVars, cmVars>>

\* mutant of isConnected(): the cached state alone
IsConnected_CachedOnly == currentStatus = "CONNECTED"

\* isConnected()
IsConnected == currentStatus = "CONNECTED" /\ linkUp

\* a call of isConnected()
WfIsConnected ==
  /\ wfPc = "idle" /\ cmPc = "idle"
  /\ op' = "isConnected"
  /\ ret' = IsConnected
  /\ UNCHANGED <<now, linkUp, fbVars, simVars, cmVars, wfVars>>

\* setAutoReconnect(enable)
WfSetAutoReconnect ==
  \E enable \in BOOLEAN :
    /\ wfPc = "idle" /\ cmPc = "idle"
    /\ autoReconnect' = enable
    /\ op' = "setAutoReconnect"
    /\ ret' = FALSE
    /\ UNCHANGED <<now, linkUp, currentStatus, retryCount, lastConnectionAttempt,
                   lastStatusCheck, connectionStartTime, totalConnectionAttempts,
                   successfulConnections, failedConnections, totalConnectedTime,
                   lastConnectedTime, wfPc, startAttempt, attemptsMade, wfCaller,
                   disconnectedBy>>
    /\ UNCHANGED <<fbVars, simVars, cmVars>>

----------------------------------------------------------------------------
(* Feature scaling (weather_scaling.h). Every quantity is a float in the   *)
(* code. The model keeps a quantity as a whole number of a unit chosen so  *)
(* that the float values of its scaling constants are whole numbers: the   *)
(* float nearest to 29.3 is 15361638 / 2^19, the float nearest to 96352.68 *)
(* is 12333143 / 2^7, and so on. A value that need not be a whole number   *)
(* of units, an average or a scaled feature, is the fraction num/den.      *)
(* Within the clamp range the subtraction raw - MIN is exact in float      *)
(* arithmetic (the difference has fewer than 24 significant bits), so the  *)
(* fraction a scaling function yields is the exact quotient of the two     *)
(* float operands of its division; the float returned is that quotient     *)
(* rounded to 24 bits. The rounding of the sums of an average is not       *)
(* modelled.                                                               *)

\* units per degree Celsius, per percent of humidity, per pascal, per lux
TEMP_UNIT == 100
HUMID_UNIT == 512 * 1024
PRESSURE_UNIT == 128
LUX_UNIT == 16 * 1024

\* PRESSURE_RANGE is a float with a finer spacing than PRESSURE_MIN and PRESSURE_MAX:
\* it is kept in units of 1/4096 Pa, PRESSURE_RANGE_SUB of which make a pressure unit
PRESSURE_RANGE_SUB == 32

\* the float values of the constants, in these units
TEMP_MIN == 1900
TEMP_MAX == 3000
TEMP_RANGE == 1100
HUMID_MIN == 15361638
HUMID_MAX == 29831988
HUMID_RANGE == 14470349
PRESSURE_MIN == 12333143
PRESSURE_MAX == 12838536
PRESSURE_RANGE == 16172564
LUX_MIN == 0
LUX_MAX == 10355999
LUX_RANGE == 10355999

Frac(n, d) == [num |-> n, den |-> d]

\* the body the four scale_*() functions share: clamp to [min, max], then
\* (raw - min) / range; sub units of range make one unit of raw, min and max
Scale(r, min, max, range, sub) ==
  LET lo == min * r.den
      hi == max * r.den
      c1 == IF r.num < lo THEN lo ELSE r.num
      c2 == IF c1 > hi THEN hi ELSE c1
  IN Frac((c2 - lo) * sub, range * r.den)

scale_temperature(r) == Scale(r, TEMP_MIN, TEMP_MAX, TEMP_RANGE, 1)
scale_humidity(r) == Scale(r, HUMID_MIN, HUMID_MAX, HUMID_RANGE, 1)
scale_pressure(r) ==
  Scale(r, PRESSURE_MIN, PRESSURE_MAX, PRESSURE_RANGE, PRESSURE_RANGE_SUB)
scale_lux(r) == Scale(r, LUX_MIN, LUX_MAX, LUX_RANGE, 1)

\* scale_features(): the feature vector (temperature, humidity, pressure, lux)
scale_features(raw) ==
  <<scale_temperature(raw.temp), scale_humidity(raw.humid),
    scale_pressure(raw.pressure), scale_lux(raw.lux)>>

\* raw readings handed to the scaling functions: below, at, inside, at and above the
\* training bounds
RawTemps == {-5 * TEMP_UNIT, TEMP_MIN - 1, TEMP_MIN, 2450, TEMP_MAX, TEMP_MAX + 1}
RawHumids == {0, HUMID_MIN, 30 * HUMID_UNIT, HUMID_MAX, 100 * HUMID_UNIT}
RawPressures ==
  {0, PRESSURE_MIN, 96400 * PRESSURE_UNIT, PRESSURE_MAX, 110000 * PRESSURE_UNIT}
RawLuxes == {-1 * LUX_UNIT, 0, 600 * LUX_UNIT, LUX_MAX, 100000 * LUX_UNIT}

----------------------------------------------------------------------------
(* SensorSimulator (sensor_simulate.h): sampling, window average,          *)
(* prediction, delivery to the two sinks                                   *)

SENSOR_INTERVAL == 1000
PREDICTION_INTERVAL == 15000
BUFFER_SIZE == 15
NUM_CLASSES == 5
SIM_DNS_COOLDOWN_MS == 2000

\* the classes classifier.predict() returns
Classes == 0 .. (NUM_CLASSES - 1)

\* the classes the classifier returns where the delivery to the sinks is examined
DeliveryClasses == {4}

\* the sequences of sensor values a run is fed: the same sample every second, or a
\* different one at every reading
Streams == {"constant", "ramp"}

\* reading number k (counted from boot) of stream st
StreamSample(st, k) ==
  IF st = "constant"
    THEN [temp |-> 30 * TEMP_UNIT, humid |-> 30 * HUMID_UNIT,
          pressure |-> 96400 * PRESSURE_UNIT, lux |-> 600 * LUX_UNIT, gas |-> 30000]
    ELSE [temp |-> TEMP_MIN + 10 * k, humid |-> HUMID_MIN + 1000 * k,
          pressure |-> PRESSURE_MIN + 100 * k, lux |-> 1000 * k,
          gas |-> 5000 + 100 * k]

RECURSIVE SumSeq(_)
SumSeq(q) == IF q = <<>> THEN 0 ELSE Head(q) + SumSeq(Tail(q))

\* mutant of the window average: the sum is not divided
Average_NoDivide(buf) == Frac(SumSeq(buf), 1)

\* the window average of makePrediction(): the sum of all slots over BUFFER_SIZE
Average(buf) == Frac(SumSeq(buf), BUFFER_SIZE)

\* mutant of the write index: it is not advanced modulo BUFFER_SIZE but stops at the
\* last slot
NextIndex_NoWrap(i) == IF i + 1 < BUFFER_SIZE THEN i + 1 ELSE i

\* the write index after a reading
NextIndex(i) == (i + 1) % BUFFER_SIZE

\* mutant of the histogram update: the count of the class is set, not advanced
CountPrediction_Overwrite(counts, c) == [counts EXCEPT ![c + 1] = 1]

\* the histogram update of makePrediction(): predictionCounts[predictedClass]++
CountPrediction(counts, c) == [counts EXCEPT ![c + 1] = @ + 1]

ZeroBuffer == [i \in 1..BUFFER_SIZE |-> 0]

simBuffers == <<tempBuffer, humidBuffer, pressureBuffer, luxBuffer, gasBuffer>>
simUploadStats == <<totalCloudUploads, successfulUploads, failedUploads>>
simPrediction == <<avg, scaledFeatures, predictedClass, simCycle>>
simHistory == <<stream, readingsEver, simStarts>>

\* what a makePrediction() that skips the sinks leaves in the history
NoDelivery ==
  [gate |-> FALSE, code |-> 0, upload |-> "none", lookups |-> 0, requests |-> 0, cooldown |-> 0,
   backupCalled |-> FALSE, backupAttempted |-> FALSE, linkAtUpload |-> linkUp]

\* uploadToCloud() after its counter: dns is what WiFi.hostByName() answers, code what
\* http.GET() answers
\* mutant of uploadToCloud(): no cooldown after a failed name resolution
UploadToCloud_NoCooldown(dns, code) ==
  IF ~linkUp
    THEN [ok |-> FALSE, code |-> 0, upload |-> "nolink", lookups |-> 0, requests |-> 0, cooldown |-> 0]
  ELSE IF ~dns
    THEN [ok |-> FALSE, code |-> 0, upload |-> "dns", lookups |-> 1, requests |-> 0, cooldown |-> 0]
  ELSE [ok |-> (code > 0 /\ code = 200), code |-> code, upload |-> "http", lookups |-> 1,
        requests |-> 1, cooldown |-> 0]

UploadToCloud(dns, code) ==
  IF ~linkUp
    THEN [ok |-> FALSE, code |-> 0, upload |-> "nolink", lookups |-> 0, requests |-> 0, cooldown |-> 0]
  ELSE IF ~dns
    THEN [ok |-> FALSE, code |-> 0, upload |-> "dns", lookups |-> 1, requests |-> 0,
          cooldown |-> SIM_DNS_COOLDOWN_MS]
  ELSE [ok |-> (code > 0 /\ code = 200), code |-> code, upload |-> "http", lookups |-> 1,
        requests |-> 1, cooldown |-> 0]

\* readSensors(): the sample goes to the slot at bufferIndex of the five buffers
ReadSensors ==
  LET smp == StreamSample(stream, readingsEver + 1)
      i == bufferIndex + 1
  IN /\ tempBuffer' = [tempBuffer EXCEPT ![i] = smp.temp]
     /\ humidBuffer' = [humidBuffer EXCEPT ![i] = smp.humid]
     /\ pressureBuffer' = [pressureBuffer EXCEPT ![i] = smp.pressure]
     /\ luxBuffer' = [luxBuffer EXCEPT ![i] = smp.lux]
     /\ gasBuffer' = [gasBuffer EXCEPT ![i] = smp.gas]
     /\ bufferIndex' = NextIndex(bufferIndex)
     /\ totalReadings' = totalReadings + 1
     /\ readingsEver' = readingsEver + 1
     /\ written' = written \cup {i}

\* mutant of the upload counters: a call stopped by name resolution is not counted
\* as a failure
CountUpload_DnsUncounted(u) ==
  /\ totalCloudUploads' = totalCloudUploads + 1
  /\ successfulUploads' = successfulUploads + (IF u.ok THEN 1 ELSE 0)
  /\ failedUploads' = failedUploads + (IF u.ok \/ u.upload = "dns" THEN 0 ELSE 1)

\* the counters of uploadToCloud(): the call is counted on entry, then as a success
\* on HTTP 200 and as a failure on every other exit
CountUpload(u) ==
  /\ totalCloudUploads' = totalCloudUploads + 1
  /\ successfulUploads' = successfulUploads + (IF u.ok THEN 1 ELSE 0)
  /\ failedUploads' = failedUploads + (IF u.ok THEN 0 ELSE 1)

\* mutant of the window: the buffers as they were when update() was entered
PredictionWindow_BeforeSample ==
  [temp |-> tempBuffer, humid |-> humidBuffer, pressure |-> pressureBuffer,
   lux |-> luxBuffer, gas |-> gasBuffer]

\* the buffers makePrediction() reads: update() calls it after readSensors(), so
\* they hold whatever the sampling branch of the same call has stored
PredictionWindow ==
  [temp |-> tempBuffer', humid |-> humidBuffer', pressure |-> pressureBuffer',
   lux |-> luxBuffer', gas |-> gasBuffer']

\* makePrediction(): averages of the buffers as readSensors() left them, scaling,
\* classification, histogram, then the two sinks behind the wifiAvailable flag. A
\* store write can succeed only over the link. classes: what the classifier may return
MakePrediction(classes) ==
  /\ avg' = [temp |-> Average(PredictionWindow.temp),
             humid |-> Average(PredictionWindow.humid),
             pressure |-> Average(PredictionWindow.pressure),
             lux |-> Average(PredictionWindow.lux),
             gas |-> Average(PredictionWindow.gas)]
  /\ scaledFeatures' = <<scale_temperature(avg'.temp), scale_humidity(avg'.humid),
                         scale_pressure(avg'.pressure), scale_lux(avg'.lux)>>
  /\ \E c \in classes :
       /\ predictedClass' = c
       /\ predictionCounts' = CountPrediction(predictionCounts, c)
  /\ totalPredictions' = totalPredictions + 1
  /\ IF wifiAvailable
       THEN \E dns \in BOOLEAN, code \in HttpCodes, ready, ok \in BOOLEAN :
              LET u == UploadToCloud(dns, code)
                  t == AddT(now, Ms(u.cooldown))
              IN /\ ok => linkUp
                 /\ CountUpload(u)
                 /\ now' = t
                 /\ BackupEffects(t, ready, ok)
                 /\ simCycle' = [gate |-> TRUE, code |-> u.code, upload |-> u.upload,
                                 lookups |-> u.lookups, requests |-> u.requests,
                                 cooldown |-> Ms(u.cooldown), backupCalled |-> TRUE,
                                 backupAttempted |-> ShouldBackup(t),
                                 linkAtUpload |-> linkUp]
       ELSE /\ simCycle' = NoDelivery
            /\ UNCHANGED <<now, simUploadStats, fbVars>>

\* mutant of the prediction tick: no prediction once an upload has failed
PredictionDue_UntilFailure ==
  isRunning /\ SubT(now, lastPrediction) >= Ms(PREDICTION_INTERVAL) /\ failedUploads = 0

\* update() is about to make a prediction: a run is on and the interval has elapsed
PredictionDue == isRunning /\ SubT(now, lastPrediction) >= Ms(PREDICTION_INTERVAL)

\* update() is about to take a sample: a run is on and the interval has elapsed
SampleDue == isRunning /\ SubT(now, lastSensorRead) >= Ms(SENSOR_INTERVAL)

\* update() while a run is on (it returns at once otherwise): a reading when
\* SENSOR_INTERVAL has elapsed, then a prediction when PREDICTION_INTERVAL has elapsed
SimUpdate(classes) ==
  /\ wfPc = "idle" /\ cmPc = "idle" /\ stPc = "idle"
  /\ isRunning
  /\ op' = "sim.update"
  /\ ret' = FALSE
  /\ IF SampleDue
       THEN lastSensorRead' = now /\ ReadSensors
       ELSE UNCHANGED <<lastSensorRead, simBuffers, bufferIndex,
                        totalReadings, readingsEver, written>>
  /\ IF PredictionDue
       THEN lastPrediction' = now /\ MakePrediction(classes)
       ELSE UNCHANGED <<now, lastPrediction, simPrediction, simUploadStats,
                        totalPredictions, predictionCounts, fbVars>>
  /\ UNCHANGED <<simulationStartTime, isRunning, wifiAvailable, stream,
                 simStarts, rawInput, stVars>>
  /\ UNCHANGED <<cmVars, wfVars, linkUp>>

\* start() while no run is on (it returns at once otherwise)
SimStart ==
  /\ wfPc = "idle" /\ cmPc = "idle" /\ stPc = "idle"
  /\ ~isRunning
  /\ simStarts < MaxStarts
  /\ simStarts' = simStarts + 1
  /\ op' = "sim.start"
  /\ ret' = FALSE
  /\ isRunning' = TRUE
  /\ simulationStartTime' = now
  /\ bufferIndex' = 0
  /\ lastSensorRead' = 0
  /\ lastPrediction' = 0
  /\ totalReadings' = 0
  /\ totalPredictions' = 0
  /\ predictionCounts' = [i \in 1..NUM_CLASSES |-> 0]
  /\ written' = {}
  /\ UNCHANGED <<simBuffers, simUploadStats, simPrediction, wifiAvailable,
                 stream, readingsEver, rawInput, stVars>>
  /\ UNCHANGED <<now, fbVars, cmVars, wfVars, linkUp>>

\* stop() while a run is on (it returns at once otherwise)
SimStop ==
  /\ wfPc = "idle" /\ cmPc = "idle" /\ stPc = "idle"
  /\ isRunning
  /\ op' = "sim.stop"
  /\ ret' = FALSE
  /\ isRunning' = FALSE
  /\ UNCHANGED <<simBuffers, bufferIndex, lastSensorRead, lastPrediction,
                 simulationStartTime, totalReadings, totalPredictions, simUploadStats,
                 predictionCounts, wifiAvailable, stream, readingsEver, written,
                 simStarts, simPrediction, rawInput, stVars>>
  /\ UNCHANGED <<now, fbVars, cmVars, wfVars, linkUp>>

\* setWiFiStatus(available): the main program hands over what isConnected() answers
SimSetWiFiStatus ==
  /\ wfPc = "idle" /\ cmPc = "idle" /\ stPc = "idle"
  /\ op' = "sim.setWiFiStatus"
  /\ ret' = FALSE
  /\ wifiAvailable' = IsConnected
  /\ UNCHANGED <<simBuffers, bufferIndex, lastSensorRead, lastPrediction,
                 simulationStartTime, totalReadings, totalPredictions, simUploadStats,
                 predictionCounts, isRunning, stream, readingsEver, written,
                 simStarts, simPrediction, rawInput, stVars>>
  /\ UNCHANGED <<now, fbVars, cmVars, wfVars, linkUp>>

\* scale_features() called with four raw readings
ScaleFeatures ==
  \E t \in RawTemps, h \in RawHumids, p \in RawPressures, l \in RawLuxes :
    LET raw == [temp |-> Frac(t, 1), humid |-> Frac(h, 1), pressure |-> Frac(p, 1),
                lux |-> Frac(l, 1)]
    IN /\ rawInput' = raw
       /\ scaledFeatures' = scale_features(raw)
       /\ op' = "scale_features"
       /\ ret' = FALSE
       /\ UNCHANGED <<simBuffers, bufferIndex, lastSensorRead, lastPrediction,
                      simulationStartTime, totalReadings, totalPredictions,
                      simUploadStats, predictionCounts, isRunning, wifiAvailable,
                      stream, readingsEver, written, avg, predictedClass, simCycle,
                      simStarts, stVars>>
       /\ UNCHANGED <<now, fbVars, cmVars, wfVars, linkUp>>

----------------------------------------------------------------------------
(* SensorTest (sensor_test.h): run() reads the sensors 15 times, averages, *)
(* predicts and hands the averages to the two sinks                        *)

ST_READINGS == 15
ST_READ_DELAY_MS == 1000
ST_I2C_DELAY_MS == 500
ST_SENSOR_DELAY_MS == 300

\* the delays of initializeSensors(): one after the bus, one after each of three sensors
StInitDelay == ST_I2C_DELAY_MS + 3 * ST_SENSOR_DELAY_MS

\* the averages of run(): the sum of the readings over their number
StAverage(v) == Frac(ST_READINGS * v, ST_READINGS)

\* run() up to the primary sink: sensors initialised on the first call, ST_READINGS
\* readings with a delay between two of them, averages, prediction; uploadWithRetry()
\* is entered when the cached flag of the primary sink is set
StRun ==
  /\ wfPc = "idle" /\ cmPc = "idle" /\ stPc = "idle"
  /\ stRuns < MaxRuns
  /\ stRuns' = stRuns + 1
  /\ sensorsInitialized' = TRUE
  /\ op' = "run"
  /\ ret' = FALSE
  /\ LET t == AddT(now, (IF sensorsInitialized THEN 0 ELSE Ms(StInitDelay))
                         + Ms((ST_READINGS - 1) * ST_READ_DELAY_MS))
         smp == StreamSample("constant", 1)
         raw == [temp |-> StAverage(smp.temp), humid |-> StAverage(smp.humid),
                 pressure |-> StAverage(smp.pressure), lux |-> StAverage(smp.lux)]
     IN /\ now' = t
        /\ rawInput' = raw
        /\ scaledFeatures' = scale_features(raw)
        /\ \E c \in DeliveryClasses : predictedClass' = c
        /\ IF cmConnected
             THEN UploadWithRetryEnter(t) /\ stPc' = "upload"
             ELSE stPc' = "backup" /\ UNCHANGED cmVars
  /\ stCycle' = [uploadCalled |-> cmConnected, backupAttempted |-> FALSE,
                 linkAtBackup |-> FALSE]
  /\ UNCHANGED <<simBuffers, bufferIndex, lastSensorRead, lastPrediction,
                 simulationStartTime, totalReadings, totalPredictions, simUploadStats,
                 predictionCounts, isRunning, wifiAvailable, stream, readingsEver,
                 written, avg, simCycle, simStarts>>
  /\ UNCHANGED <<fbVars, wfVars, linkUp>>

\* the end of run(): backupData() once uploadWithRetry() has returned or was skipped.
\* A store write can succeed only over the link
StBackup ==
  /\ stPc \in {"upload", "backup"} /\ cmPc = "idle"
  /\ \E ready, ok \in BOOLEAN :
       /\ ok => linkUp
       /\ BackupEffects(now, ready, ok)
       /\ ret' = BackupResult(now, ready, ok)
  /\ op' = "run.return"
  /\ stPc' = "idle"
  /\ stCycle' = [stCycle EXCEPT !.backupAttempted = ShouldBackup(now),
                                !.linkAtBackup = linkUp]
  /\ UNCHANGED <<simBuffers, bufferIndex, lastSensorRead, lastPrediction,
                 simulationStartTime, totalReadings, totalPredictions, simUploadStats,
                 predictionCounts, isRunning, wifiAvailable, stream, readingsEver,
                 written, simPrediction, simStarts, rawInput, sensorsInitialized,
                 stRuns>>
  /\ UNCHANGED <<now, cmVars, wfVars, linkUp>>

----------------------------------------------------------------------------
(* The main loop                                                           *)

\* time passes between two handler calls, up to limit on the clock; no handler is
\* in progress
Tick(d, limit) ==
  /\ wfPc = "idle" /\ cmPc = "idle" /\ stPc = "idle"
  /\ now + Ms(d) <= limit
  /\ now' = AddT(now, Ms(d))
  /\ op' = "tick"
  /\ ret' = FALSE
  /\ fbWrites' = {}
  /\ UNCHANGED <<enabled, initialized, fbConnected, deviceID, mac, fbInits,
                 lastBackupTime, readingCount, totalBackups, successfulBackups,
                 failedBackups, consecutiveFailures, failStreak>>
  /\ UNCHANGED <<cmVars, wfVars, simVars, linkUp>>

\* the transport loses or regains the link on its own; no handler is in progress
LinkDown ==
  /\ wfPc = "idle"
  /\ linkUp
  /\ linkUp' = FALSE
  /\ op' = "linkDown"
  /\ ret' = FALSE
  /\ UNCHANGED <<now, fbVars, simVars, cmVars, wfVars>>

LinkUp ==
  /\ wfPc = "idle"
  /\ ~linkUp
  /\ linkUp' = TRUE
  /\ op' = "linkUp"
  /\ ret' = FALSE
  /\ UNCHANGED <<now, fbVars, simVars, cmVars, wfVars>>

----------------------------------------------------------------------------
(* Initial state: the state after the constructors have run at boot        *)

\* FirebaseManager::FirebaseManager(); FIREBASE_ENABLED is a build-time switch
InitFirebase(en) ==
  /\ deviceID = <<>>
  /\ enabled = en
  /\ initialized = FALSE
  /\ fbConnected = FALSE
  /\ lastBackupTime = 0
  /\ readingCount = 0
  /\ totalBackups = 0
  /\ successfulBackups = 0
  /\ failedBackups = 0
  /\ consecutiveFailures = 0
  /\ fbWrites = {}
  /\ fbInits = 0
  /\ failStreak = 0

\* CloudManager::CloudManager()
InitCloud ==
  /\ cmConnected = FALSE
  /\ cmPc = "idle"
  /\ cmAttempt = 0
  /\ cmResults = <<>>
  /\ cmDelays = <<>>
  /\ cmCooldown = 0
  /\ cmHttp = 0
  /\ cmStart = 0
  /\ cmLookups = 0
  /\ cmLast = NoUpload
  /\ cmCalls = 0

\* WiFiManager::WiFiManager()
InitWiFi ==
  /\ currentStatus = "IDLE"
  /\ retryCount = 0
  /\ lastConnectionAttempt = 0
  /\ lastStatusCheck = 0
  /\ connectionStartTime = 0
  /\ autoReconnect = TRUE
  /\ totalConnectionAttempts = 0
  /\ successfulConnections = 0
  /\ failedConnections = 0
  /\ totalConnectedTime = 0
  /\ lastConnectedTime = 0
  /\ wfPc = "idle"
  /\ startAttempt = 0
  /\ attemptsMade = 0
  /\ wfCaller = "none"
  /\ disconnectedBy = "none"

\* SensorSimulator::SensorSimulator(); st is the stream of values the run will be fed
InitSimulator(st) ==
  /\ tempBuffer = ZeroBuffer
  /\ humidBuffer = ZeroBuffer
  /\ pressureBuffer = ZeroBuffer
  /\ luxBuffer = ZeroBuffer
  /\ gasBuffer = ZeroBuffer
  /\ bufferIndex = 0
  /\ lastSensorRead = 0
  /\ lastPrediction = 0
  /\ simulationStartTime = 0
  /\ totalReadings = 0
  /\ totalPredictions = 0
  /\ totalCloudUploads = 0
  /\ successfulUploads = 0
  /\ failedUploads = 0
  /\ predictionCounts = [i \in 1..NUM_CLASSES |-> 0]
  /\ isRunning = FALSE
  /\ wifiAvailable = FALSE
  /\ stream = st
  /\ readingsEver = 0
  /\ simStarts = 0
  /\ sensorsInitialized = FALSE
  /\ stPc = "idle"
  /\ stRuns = 0
  /\ stCycle = [uploadCalled |-> FALSE, backupAttempted |-> FALSE, linkAtBackup |-> FALSE]
  /\ written = {}
  /\ avg = [temp |-> Frac(0, 1), humid |-> Frac(0, 1), pressure |-> Frac(0, 1),
            lux |-> Frac(0, 1), gas |-> Frac(0, 1)]
  /\ scaledFeatures = <<Frac(0, 1), Frac(0, 1), Frac(0, 1), Frac(0, 1)>>
  /\ predictedClass = 0
  /\ simCycle = [gate |-> FALSE, code |-> 0, upload |-> "none", lookups |-> 0, requests |-> 0,
                 cooldown |-> 0, backupCalled |-> FALSE, backupAttempted |-> FALSE,
                 linkAtUpload |-> FALSE]
  /\ rawInput = [temp |-> Frac(0, 1), humid |-> Frac(0, 1), pressure |-> Frac(0, 1),
                 lux |-> Frac(0, 1)]

InitCommon ==
  /\ now = 0
  /\ op = "boot"
  /\ ret = FALSE
  /\ linkUp = FALSE

----------------------------------------------------------------------------
(* Specification of the backup sink: FirebaseManager driven by its caller  *)

InitFB ==
  /\ InitCommon
  /\ mac \in Macs
  /\ \E en \in BOOLEAN : InitFirebase(en)
  /\ InitCloud
  /\ InitWiFi
  /\ InitSimulator("constant")

NextFB ==
  \/ FbInitialize
  \/ BackupData
  \/ BackupDataWithGas
  \/ FbShouldBackup
  \/ \E d \in FbTickSteps : Tick(d, MaxClock)

SpecFB == InitFB /\ [][NextFB]_vars

\* time since WrapStart of a clock value of the session across the wrap, as a plain
\* number: the clock values before the wrap are the large ones
SinceWrapStart(t) == IF t >= WrapStart THEN t - WrapStart ELSE t + (ClockWrap - WrapStart)

\* time passes between two calls in the session across the wrap
WrapTick ==
  \E d \in WrapTickSteps :
    /\ wfPc = "idle" /\ cmPc = "idle" /\ stPc = "idle"
    /\ isRunning => op = "sim.update"
    /\ SinceWrapStart(now) + Ms(d) <= WrapSpan
    /\ now' = AddT(now, Ms(d))
    /\ op' = "tick"
    /\ ret' = FALSE
    /\ fbWrites' = {}
    /\ UNCHANGED <<enabled, initialized, fbConnected, deviceID, mac, fbInits,
                   lastBackupTime, readingCount, totalBackups, successfulBackups,
                   failedBackups, consecutiveFailures, failStreak>>
    /\ UNCHANGED <<cmVars, wfVars, simVars, linkUp>>

\* every routine of the manager that can write to the store, over a short session
NextStore ==
  \/ FbInitialize
  \/ BackupData
  \/ BackupDataWithGas
  \/ FbSaveDeviceInfo
  \/ FbUpdateDeviceStatus
  \/ \E d \in FbTickSteps : Tick(d, StoreMaxClock)

SpecStore == InitFB /\ [][NextStore]_vars

----------------------------------------------------------------------------
(* Specification of the primary sink: CloudManager driven by its caller    *)

InitCM ==
  /\ InitCommon
  /\ mac \in {CHOOSE m \in Macs : TRUE}
  /\ InitFirebase(TRUE)
  /\ InitCloud
  /\ InitWiFi
  /\ InitSimulator("constant")

NextCM ==
  \/ CmUploadWithRetry
  \/ CmAttemptStep
  \/ CmBackoffStep
  \/ CmLinkChange
  \/ LinkUp
  \/ LinkDown
  \/ \E d \in CmTickSteps : Tick(d, MaxClock)

SpecCM == InitCM /\ [][NextCM]_vars

----------------------------------------------------------------------------
(* Specification of the connectivity manager: WiFiManager, its caller, the link *)

InitWF ==
  /\ InitCommon
  /\ mac \in {CHOOSE m \in Macs : TRUE}
  /\ InitFirebase(TRUE)
  /\ InitCloud
  /\ InitWiFi
  /\ InitSimulator("constant")

NextWF ==
  \/ WfConnect
  \/ WfLedCallbackConnect
  \/ WfAttemptWait
  \/ WfRetryDelay
  \/ WfUpdate
  \/ WfAutoReconnect
  \/ WfDisconnect
  \/ WfIsConnected
  \/ WfSetAutoReconnect
  \/ LinkUp
  \/ LinkDown
  \/ \E d \in WfTickSteps : Tick(d, WfMaxClock)

SpecWF == InitWF /\ [][NextWF]_vars

\* the session of the manager from power-up, begin() included; the transport is told
\* not to reconnect by itself (WiFi.setAutoReconnect(false)), so the link comes up
\* in attemptConnection() only
NextSession ==
  \/ WfBegin
  \/ WfConnect
  \/ WfAttemptWait
  \/ WfRetryDelay
  \/ WfUpdate
  \/ WfAutoReconnect
  \/ WfDisconnect
  \/ WfSetAutoReconnect
  \/ LinkDown
  \/ \E d \in WfTickSteps : Tick(d, WfMaxClock)

SpecSession == InitWF /\ [][NextSession]_vars

\* a blocking call that has been started runs on: the single control flow does not
\* stop inside connect() or update()
FairSpecWF ==
  /\ SpecWF
  /\ WF_vars(WfAttemptWait)
  /\ WF_vars(WfRetryDelay)
  /\ WF_vars(WfAutoReconnect)

----------------------------------------------------------------------------
(* Specification of the scaling functions: scale_features() on raw readings *)

InitScale ==
  /\ InitCommon
  /\ mac \in {CHOOSE m \in Macs : TRUE}
  /\ InitFirebase(TRUE)
  /\ InitCloud
  /\ InitWiFi
  /\ InitSimulator("constant")

NextScale == ScaleFeatures

SpecScale == InitScale /\ [][NextScale]_vars

----------------------------------------------------------------------------
(* Specification of the pipeline: SensorSimulator with the backup sink and *)
(* the link, from the state the boot sequence leaves: begin() has          *)
(* connected on its first attempt, then initialize() has run.              *)

\* WiFiManager after begin() connected at once (a state of SpecWF)
BootWiFi ==
  /\ currentStatus = "CONNECTED"
  /\ retryCount = 1
  /\ lastConnectionAttempt = 0
  /\ lastStatusCheck = 0
  /\ connectionStartTime = 0
  /\ autoReconnect = TRUE
  /\ totalConnectionAttempts = 1
  /\ successfulConnections = 1
  /\ failedConnections = 0
  /\ totalConnectedTime = 0
  /\ lastConnectedTime = Ms(WIFI_SETTLE_MS)
  /\ wfPc = "idle"
  /\ startAttempt = Ms(WIFI_SETTLE_MS)
  /\ attemptsMade = 1
  /\ wfCaller = "user"
  /\ disconnectedBy = "none"
  /\ linkUp = TRUE

\* FirebaseManager after one initialize() that began at clock value t0: en is the
\* build switch, ready whether the store got ready at once or not within the wait
BootFirebase(t0, en, ready) ==
  /\ enabled = en
  /\ initialized = (~en \/ ready)
  /\ fbConnected = (en /\ ready)
  /\ deviceID = GenerateDeviceID(mac)
  /\ now = AddT(t0, IF en /\ ~ready
                      THEN Ms(FB_READY_POLLS * FB_POLL_DELAY + FB_SETTLE_DELAY)
                      ELSE Ms(FB_SETTLE_DELAY))
  /\ fbWrites = (IF en /\ ready
                   THEN {<<"info", GenerateDeviceID(mac)>>,
                         <<"status", GenerateDeviceID(mac)>>}
                   ELSE {})
  /\ fbInits = 1
  /\ lastBackupTime = 0
  /\ readingCount = 0
  /\ totalBackups = 0
  /\ successfulBackups = 0
  /\ failedBackups = 0
  /\ consecutiveFailures = 0
  /\ failStreak = 0

\* the main loop calls update() on every iteration: while a run is on, time passes
\* between two update() calls only, a sampling interval at a time; while no run is on
\* the simulator waits for the next command
SimLoopDelay ==
  /\ isRunning => op = "sim.update"
  /\ \E d \in (IF isRunning THEN SimTickSteps ELSE SimIdleSteps) : Tick(d, SimMaxClock)

InitSim ==
  /\ op = "initialize"
  /\ ret = FALSE
  /\ mac \in {CHOOSE m \in Macs : TRUE}
  /\ BootWiFi
  /\ \E en, ready \in BOOLEAN : BootFirebase(Ms(WIFI_SETTLE_MS), en, ready)
  /\ InitCloud
  /\ InitSimulator("constant")

NextSim ==
  \/ SimStart
  \/ SimSetWiFiStatus
  \/ SimUpdate(DeliveryClasses)
  \/ CmUploadData
  \/ LinkDown
  \/ LinkUp
  \/ SimLoopDelay

SpecSim == InitSim /\ [][NextSim]_vars

\* the main loop runs for ever: update() is called again and again, and time passes
\* between two calls
NextRun ==
  \/ SimStart
  \/ SimSetWiFiStatus
  \/ SimUpdate(DeliveryClasses)
  \/ LinkDown
  \/ LinkUp
  \/ SimLoopDelay

FairSpecSim ==
  /\ InitSim
  /\ [][NextRun]_vars
  /\ WF_vars(SimUpdate(DeliveryClasses))
  /\ SF_vars(SimLoopDelay)

----------------------------------------------------------------------------
(* Specification of the sensor test: SensorTest::run() with the two sinks  *)
(* and the link, from the same boot state                                  *)

\* between two commands the main loop lets time pass
TestLoopDelay == \E d \in TestIdleSteps : Tick(d, SimMaxClock)

InitTest == InitSim

NextTest ==
  \/ CmTestConnection
  \/ StRun
  \/ CmAttemptStep
  \/ CmBackoffStep
  \/ StBackup
  \/ LinkDown
  \/ LinkUp
  \/ TestLoopDelay

SpecTest == InitTest /\ [][NextTest]_vars

----------------------------------------------------------------------------
(* Specification of the aggregation: SensorSimulator sampling, averaging   *)
(* and classifying, started, stopped and restarted, with the sinks left    *)
(* out (setWiFiStatus(true) is never called)                               *)

InitAgg ==
  /\ op = "initialize"
  /\ ret = FALSE
  /\ mac \in {CHOOSE m \in Macs : TRUE}
  /\ BootWiFi
  /\ BootFirebase(Ms(WIFI_SETTLE_MS), TRUE, TRUE)
  /\ InitCloud
  /\ \E st \in Streams : InitSimulator(st)

NextAgg ==
  \/ SimStart
  \/ SimStop
  \/ SimUpdate(Classes)
  \/ SimLoopDelay

SpecAgg == InitAgg /\ [][NextAgg]_vars

----------------------------------------------------------------------------
(* Claims about the backup sink (checked under SpecFB)                     *)

BackupOps == {"backupData", "backupDataWithGas"}

\* the breaker of the backup sink is open
BreakerOpen == consecutiveFailures >= MAX_FAILED_UPLOADS

\* C1: once consecutiveFailures has reached maxConsecutiveFailures, every later
\* shouldBackup() call returns false, every later backupData()/backupDataWithGas()
\* call returns false and issues no write, whatever the store would answer, and no
\* initialize()/backupData()/backupDataWithGas() call lowers consecutiveFailures.
C1_BreakerNeverCloses ==
  [][ BreakerOpen =>
        /\ consecutiveFailures' >= consecutiveFailures
        /\ (op' = "shouldBackup" => ret' = FALSE)
        /\ (op' \in BackupOps => ret' = FALSE /\ fbWrites' = {}) ]_vars

\* a backup call made with the breaker open, the interval elapsed and the manager
\* enabled and initialized: only the breaker keeps the gate closed
C1_Witness ==
  /\ BreakerOpen
  /\ op \in BackupOps
  /\ enabled /\ initialized
  /\ SubT(now, lastBackupTime) >= Ms(BACKUP_INTERVAL)
  /\ ret = FALSE

\* C2: an attempt (a call that passes the gate) whose write succeeds sets
\* consecutiveFailures to 0 and adds 1 to successfulBackups; a failed attempt adds 1
\* to consecutiveFailures and to failedBackups; so consecutiveFailures counts the
\* failed attempts since the last successful one, and the breaker is open only
\* after maxConsecutiveFailures failed attempts in a row.
C2_AttemptAccounting ==
  /\ [][ (op' \in BackupOps /\ totalBackups' # totalBackups) =>
           /\ totalBackups' = totalBackups + 1
           /\ ret' = TRUE =>
                /\ consecutiveFailures' = 0
                /\ successfulBackups' = successfulBackups + 1
                /\ failedBackups' = failedBackups
           /\ ret' = FALSE =>
                /\ consecutiveFailures' = consecutiveFailures + 1
                /\ failedBackups' = failedBackups + 1
                /\ successfulBackups' = successfulBackups ]_vars
  /\ [](consecutiveFailures = failStreak)
  /\ [](BreakerOpen => failStreak >= MAX_FAILED_UPLOADS)

\* a successful attempt that follows failed ones and resets the consecutive counter
C2_Witness ==
  /\ op \in BackupOps
  /\ ret = TRUE
  /\ failedBackups >= 2
  /\ consecutiveFailures = 0

\* C3: shouldBackup() returns true iff enabled, initialized, consecutiveFailures <
\* maxConsecutiveFailures and (now - lastBackupTime) >= backupInterval (unsigned).
C3_ShouldBackupIff ==
  op = "shouldBackup" =>
    (ret <=> /\ enabled
             /\ initialized
             /\ consecutiveFailures < MAX_FAILED_UPLOADS
             /\ SubT(now, lastBackupTime) >= Ms(BACKUP_INTERVAL))

\* right after boot: initialized, no backup made yet, less than backupInterval on the
\* clock, and shouldBackup() answers false
C3_Witness ==
  /\ op = "shouldBackup"
  /\ enabled /\ initialized
  /\ totalBackups = 0 /\ lastBackupTime = 0
  /\ now < Ms(BACKUP_INTERVAL)
  /\ ret = FALSE

\* shouldBackup() answers true exactly when the interval has just elapsed
C3_WitnessDue ==
  /\ op = "shouldBackup"
  /\ ret = TRUE
  /\ SubT(now, lastBackupTime) = Ms(BACKUP_INTERVAL)
----------------------------------------------------------------------------
(* Claims about the primary sink (checked under SpecCM)                    *)

\* every uploadData() attempt of the current uploadWithRetry() call has failed
AllAttemptsFailed == \A i \in 1..Len(cmResults) : ~cmResults[i]

\* C4: when every uploadData() attempt fails, uploadWithRetry() makes exactly 3
\* attempts, waits 1 x 2000 ms after the first failure and 2 x 2000 ms after the
\* second, does not wait after the third, never makes a fourth attempt and returns
\* false. (The time spent is the two backoff delays plus the cooldowns made inside
\* the failing uploadData() calls.)
C4_RetryExhausted ==
  /\ Len(cmResults) <= 3
  /\ cmPc = "attempt" =>
       /\ Len(cmResults) = cmAttempt - 1
       /\ Len(cmDelays) = cmAttempt - 1
  /\ \A i \in 1..Len(cmDelays) : cmDelays[i] = Ms(i * 2000)
  /\ (op = "uploadWithRetry.return" /\ AllAttemptsFailed) =>
       /\ ret = FALSE
       /\ Len(cmResults) = 3
       /\ cmDelays = <<Ms(1 * 2000), Ms(2 * 2000)>>
       /\ SubT(now, cmStart) = Ms(1 * 2000) + Ms(2 * 2000) + cmCooldown

\* uploadWithRetry() has returned after three failed attempts: one with the link down,
\* one stopped by name resolution, one answered with an HTTP error
C4_Witness ==
  /\ op = "uploadWithRetry.return"
  /\ cmPc = "idle"
  /\ AllAttemptsFailed
  /\ Len(cmResults) = 3
  /\ cmHttp >= 1
  /\ cmCooldown >= Ms(CM_DNS_COOLDOWN_MS)
  /\ ret = FALSE
----------------------------------------------------------------------------
(* Claims about the connectivity manager (checked under SpecWF, FairSpecWF) *)

\* C5: isConnected() returns true only if currentStatus is Connected and the
\* transport reports the link up at the moment of the call; it returns false while
\* the link has dropped and the health check has not yet seen it.
C5_AvailableImpliesLink ==
  op = "isConnected" =>
    /\ ret => (currentStatus = "CONNECTED" /\ linkUp)
    /\ (currentStatus = "CONNECTED" /\ ~linkUp) => ~ret

\* isConnected() called in the window: state still Connected, link already down
C5_Witness ==
  /\ op = "isConnected"
  /\ currentStatus = "CONNECTED"
  /\ ~linkUp
  /\ ret = FALSE

\* C6 as stated: every connect() call terminates: an attempt waits at most
\* WIFI_TIMEOUT_MS for the link, at most MAX_WIFI_RETRIES attempts are made per call
\* (retryCount stays within 0..MAX_WIFI_RETRIES), and when connect() returns the
\* state is Connected or Failed, never Connecting or Reconnecting.
C6_EveryReturnSettled ==
  /\ [](retryCount \in 0..MAX_WIFI_RETRIES)
  /\ [](attemptsMade <= MAX_WIFI_RETRIES)
  /\ [][ (wfPc = "attempt" /\ wfPc' # "attempt") =>
           SubT(now', startAttempt) <= Ms(WIFI_TIMEOUT_MS) ]_vars
  /\ [](op \in {"connect.return", "connect.busy"} =>
          currentStatus \in {"CONNECTED", "FAILED"})
  /\ ((wfPc # "idle") ~> (wfPc = "idle"))

\* C6 (amended): a connect() call made while the state is Connecting returns false
\* at once and leaves the state Connecting. Every other connect() call terminates:
\* an attempt waits at most WIFI_TIMEOUT_MS for the link, at most MAX_WIFI_RETRIES
\* attempts are made per call (retryCount stays within 0..MAX_WIFI_RETRIES), and
\* when it returns the state is Connected or Failed.
C6_ConnectTerminates ==
  /\ [](retryCount \in 0..MAX_WIFI_RETRIES)
  /\ [](attemptsMade <= MAX_WIFI_RETRIES)
  /\ [][ (wfPc = "attempt" /\ wfPc' # "attempt") =>
           SubT(now', startAttempt) <= Ms(WIFI_TIMEOUT_MS) ]_vars
  /\ [](op = "connect.return" => currentStatus \in {"CONNECTED", "FAILED"})
  /\ [](op = "connect.busy" => (currentStatus = "CONNECTING" /\ ret = FALSE))
  /\ ((wfPc # "idle") ~> (wfPc = "idle"))

\* a connect() call that used all its attempts, each waiting the full timeout
C6_Witness ==
  /\ op = "connect.return"
  /\ wfPc = "idle"
  /\ currentStatus = "FAILED"
  /\ attemptsMade = MAX_WIFI_RETRIES
  /\ SubT(now, startAttempt) = Ms(WIFI_TIMEOUT_MS)

\* C7: a connect() call made while the state is Connecting returns false and changes
\* nothing: no field of the manager, not the transport, and no attempt is started.
C7_ConnectWhileConnecting ==
  [][ (op' \in {"connect", "connect.busy"} /\ currentStatus = "CONNECTING") =>
        /\ op' = "connect.busy"
        /\ ret' = FALSE
        /\ UNCHANGED <<now, linkUp, wfVars>> ]_vars

\* connect() was called while the first attempt of another connect() was waiting
C7_Witness ==
  /\ op = "connect.busy"
  /\ currentStatus = "CONNECTING"
  /\ wfPc = "attempt"
  /\ ret = FALSE

\* C8 as stated: in Failed no update() call changes the state or starts an attempt,
\* and only an explicit connect() call leaves Failed.
C8_OnlyConnectLeavesFailed ==
  [][ currentStatus = "FAILED" =>
        /\ op' = "update" =>
             /\ currentStatus' = "FAILED"
             /\ wfPc' = "idle"
             /\ totalConnectionAttempts' = totalConnectionAttempts
        /\ currentStatus' # "FAILED" => op' = "connect" ]_vars

\* C8 (amended): in Failed no update() call changes the state or starts an attempt,
\* whatever autoReconnect and the link are; only an explicit connect() or
\* disconnect() call leaves Failed.
C8_FailedNeedsExplicitCall ==
  [][ currentStatus = "FAILED" =>
        /\ op' = "update" =>
             /\ currentStatus' = "FAILED"
             /\ wfPc' = "idle"
             /\ totalConnectionAttempts' = totalConnectionAttempts
        /\ currentStatus' # "FAILED" => op' \in {"connect", "disconnect"} ]_vars

\* a due health check ran in Failed with autoReconnect set and the link down
C8_Witness ==
  /\ op = "update"
  /\ currentStatus = "FAILED"
  /\ autoReconnect
  /\ ~linkUp
  /\ lastStatusCheck = now

\* C9 as stated: a timed-out attempt with retries left sets the state to
\* Reconnecting, the manager waits WIFI_RETRY_DELAY_MS, and the state is Connecting
\* again during the next attempt.
C9_RetryReturnsToConnecting ==
  [][ /\ op' = "connect.attemptFailed" => currentStatus' = "RECONNECTING"
      /\ wfPc = "retryDelay" =>
           /\ SubT(lastConnectionAttempt', now) = Ms(WIFI_RETRY_DELAY_MS)
           /\ wfPc' = "attempt"
           /\ currentStatus' = "CONNECTING" ]_vars

\* C10: a due health check of update() that finds the state Connected and the link
\* down sets the state to Disconnected and adds the time since the connection was
\* established to totalConnectedTime; update() checks only when
\* WIFI_CHECK_INTERVAL has elapsed since the last check and otherwise does nothing.
C10_HealthCheck ==
  /\ [][ op' = "update" =>
           IF SubT(now, lastStatusCheck) < Ms(WIFI_CHECK_INTERVAL)
             THEN UNCHANGED <<now, linkUp, wfVars>>
             ELSE /\ lastStatusCheck' = now
                  /\ (currentStatus = "CONNECTED" /\ ~linkUp) =>
                       /\ currentStatus' = "DISCONNECTED"
                       /\ totalConnectedTime' =
                            AddT(totalConnectedTime, SubT(now, lastConnectedTime)) ]_vars
  /\ [][ (currentStatus' = "CONNECTED" /\ currentStatus # "CONNECTED") =>
           lastConnectedTime' = now' ]_vars

\* a due health check has just seen the link loss of a connection that lasted at
\* least one check interval
C10_Witness ==
  /\ op = "update"
  /\ currentStatus = "DISCONNECTED"
  /\ disconnectedBy = "update"
  /\ lastStatusCheck = now
  /\ totalConnectedTime >= Ms(WIFI_CHECK_INTERVAL)
  /\ totalConnectedTime = SubT(now, lastConnectedTime)

\* C11: when a due health check of update() leaves the state Disconnected and
\* autoReconnect is true, the same update() call goes on to call connect(), which
\* starts an attempt; when autoReconnect is false, update() starts no attempt and the
\* state stays Disconnected until connect() is called explicitly.
C11_AutoReconnect ==
  /\ [][ (op' = "update" /\ CheckDue /\ currentStatus' = "DISCONNECTED") =>
           IF autoReconnect
             THEN wfPc' = "autoReconnect"
             ELSE wfPc' = "idle" /\ totalConnectionAttempts' = totalConnectionAttempts
        ]_vars
  /\ [][ wfPc = "autoReconnect" =>
           /\ op' = "connect"
           /\ wfCaller' = "update"
           /\ currentStatus' = "CONNECTING"
           /\ wfPc' = "attempt"
           /\ totalConnectionAttempts' = totalConnectionAttempts + 1 ]_vars
  /\ [][ (currentStatus = "DISCONNECTED" /\ ~autoReconnect /\ wfPc = "idle") =>
           /\ op' = "update" => (currentStatus' = "DISCONNECTED" /\ wfPc' = "idle")
           /\ currentStatus' # "DISCONNECTED" =>
                (op' = "connect" /\ wfCaller' = "user") ]_vars
  /\ (wfPc = "autoReconnect") ~> (wfPc # "autoReconnect")

\* the update() call that saw the link loss has called connect() itself
C11_Witness ==
  /\ op = "connect"
  /\ wfCaller = "update"
  /\ disconnectedBy = "update"
  /\ currentStatus = "CONNECTING"
  /\ lastStatusCheck = connectionStartTime

\* with autoReconnect off a due health check has left the state Disconnected
C11_WitnessManual ==
  /\ op = "update"
  /\ ~autoReconnect
  /\ currentStatus = "DISCONNECTED"
  /\ disconnectedBy = "update"
  /\ lastStatusCheck = now
  /\ wfPc = "idle"

----------------------------------------------------------------------------
(* Claims about the pipeline (checked under SpecSim, SpecTest, SpecAgg and *)
(* SpecScale)                                                              *)

\* update() has just made a prediction
PredictionMade == op' = "sim.update" /\ totalPredictions' = totalPredictions + 1

\* the backup sink is in working order: enabled, initialised, breaker closed
SecondaryUsable == enabled /\ initialized /\ ~BreakerOpen

\* C12: on a prediction cycle with connectivity available (the flag handed to the
\* simulator is set and the link is up) the primary upload is attempted whatever the
\* state of the backup sink, and the backup of a sink in working order is attempted
\* whatever the primary upload did, in this cycle or in an earlier one.
C12_SinksIndependent ==
  [][(PredictionMade /\ wifiAvailable /\ linkUp) =>
       /\ simCycle'.upload # "none"
       /\ totalCloudUploads' = totalCloudUploads + 1
       /\ SecondaryUsable => (simCycle'.backupAttempted
                              /\ totalBackups' = totalBackups + 1)]_vars

\* C13: the sinks are invoked only while connectivity is available: a step taken
\* while the link is down makes and counts no upload attempt and no backup attempt,
\* and does not advance the consecutive-failure counter of the backup sink.
C13_NoSinkWhileLinkDown ==
  [][~linkUp =>
       /\ totalCloudUploads' = totalCloudUploads
       /\ failedUploads' = failedUploads
       /\ (cmPc = "attempt" => cmPc' = "attempt")
       /\ totalBackups' = totalBackups
       /\ failedBackups' = failedBackups
       /\ consecutiveFailures' = consecutiveFailures]_vars

\* the number, within the current run, of the last reading that went to slot i, when
\* n >= i readings were taken in the run
LatestInSlot(i, n) == n - ((n - i) % BUFFER_SIZE)

\* the sample of the stream that was the j-th reading of the current run, after the
\* step
RunSample(j) == StreamSample(stream, readingsEver' - totalReadings' + j)

\* the last BUFFER_SIZE samples read, oldest first, after the step
LastWindow == [k \in 1..BUFFER_SIZE |-> StreamSample(stream, readingsEver' - BUFFER_SIZE + k)]

RECURSIVE RunSum(_, _)
RunSum(n, field) ==
  IF n = 0 THEN 0
  ELSE StreamSample(stream, readingsEver - totalReadings + n)[field] + RunSum(n - 1, field)

\* C15: while a run has taken fewer than BUFFER_SIZE samples since start() or
\* restart, every slot not yet written in this run holds zero, and the average of a
\* prediction made then is the sum of this run's samples over BUFFER_SIZE.
C15_UnwrittenSlotsZero ==
  (isRunning /\ totalReadings < BUFFER_SIZE) =>
    /\ \A i \in (totalReadings + 1)..BUFFER_SIZE :
         /\ tempBuffer[i] = 0
         /\ humidBuffer[i] = 0
         /\ pressureBuffer[i] = 0
         /\ luxBuffer[i] = 0
         /\ gasBuffer[i] = 0
    /\ (op = "sim.update" /\ lastPrediction = now /\ totalPredictions >= 1) =>
         /\ avg.temp = Frac(RunSum(totalReadings, "temp"), BUFFER_SIZE)
         /\ avg.lux = Frac(RunSum(totalReadings, "lux"), BUFFER_SIZE)

\* C16: each prediction advances totalPredictions by one and exactly one of the five
\* per-class counts by one (the class predicted, in 0..4); the counts never decrease
\* and change by nothing else, except that start() resets them all to zero; the
\* counts always add up to totalPredictions.
C16_HistogramAccounting ==
  [][/\ SumSeq(predictionCounts') = totalPredictions'
     /\ DOMAIN predictionCounts' = 1..NUM_CLASSES
     /\ IF op' = "sim.update" /\ PredictionDue
          THEN /\ totalPredictions' = totalPredictions + 1
               /\ predictedClass' \in 0..(NUM_CLASSES - 1)
               /\ \A i \in 1..NUM_CLASSES :
                    predictionCounts'[i] =
                      predictionCounts[i] + (IF i = predictedClass' + 1 THEN 1 ELSE 0)
          ELSE IF op' = "sim.start"
            THEN /\ totalPredictions' = 0
                 /\ \A i \in 1..NUM_CLASSES : predictionCounts'[i] = 0
            ELSE UNCHANGED <<totalPredictions, predictionCounts>>]_vars

\* two predictions of one run have been counted, for two different classes
C16_Witness ==
  /\ op = "sim.update"
  /\ lastPrediction = now
  /\ totalPredictions = 2
  /\ predictionCounts[1] = 1
  /\ predictionCounts[NUM_CLASSES] = 1

\* what is said of one scaling function: s is the result for the raw value r (a whole
\* number of units) of the function with constants min, max and range
ScaledAsClaimed(s, r, min, max, range, sub) ==
  /\ s.den > 0
  /\ 0 <= s.num /\ s.num <= s.den
  /\ r <= min => s.num = 0
  /\ r >= max => s.num = s.den
  /\ (min < r /\ r < max) => s = Frac((r - min) * sub, (max - min) * sub)
  /\ range = (max - min) * sub

\* C17: each scale_*() result is in [0, 1]: 0 for a raw value at or below the
\* minimum, 1 for a raw value at or above the maximum, (raw - min) / (max - min) in
\* between; each *_RANGE constant is *_MAX - *_MIN.
C17_ScaledInUnitInterval ==
  op = "scale_features" =>
    /\ ScaledAsClaimed(scaledFeatures[1], rawInput.temp.num,
                       TEMP_MIN, TEMP_MAX, TEMP_RANGE, 1)
    /\ ScaledAsClaimed(scaledFeatures[2], rawInput.humid.num,
                       HUMID_MIN, HUMID_MAX, HUMID_RANGE, 1)
    /\ ScaledAsClaimed(scaledFeatures[3], rawInput.pressure.num,
                       PRESSURE_MIN, PRESSURE_MAX, PRESSURE_RANGE, PRESSURE_RANGE_SUB)
    /\ ScaledAsClaimed(scaledFeatures[4], rawInput.lux.num,
                       LUX_MIN, LUX_MAX, LUX_RANGE, 1)

\* one decimal digit more of a quotient: for 0 <= r < d, 10 * r = q * d + r2 with
\* r2 < d, computed without leaving 32 bits
TimesTen(r, d) ==
  LET a == (5 * r) \div d
      b == (5 * r) % d
  IN [q |-> 2 * a + ((2 * b) \div d), r |-> (2 * b) % d]

\* n * 10^k = q * d + r with 0 <= r < d, for n >= 0 and d > 0
RECURSIVE Scaled10(_, _, _)
Scaled10(n, d, k) ==
  IF k = 0 THEN [q |-> n \div d, r |-> n % d]
  ELSE LET p == Scaled10(n, d, k - 1)
           t == TimesTen(p.r, d)
       IN [q |-> 10 * p.q + t.q, r |-> t.r]

\* the fraction f in ten-thousandths, rounded down
TenThousandths(f) == Scaled10(f.num, f.den, 4).q

\* f is v/10000 when rounded to the precision of which half/10000 is one half
Approx(f, v, half) == v - half <= TenThousandths(f) /\ TenThousandths(f) < v + half

\* the first prediction of the first run has just been made from 15 samples of the
\* constant stream (30 C, 30 %, 96400 Pa, 600 lx)
FreshFullWindow ==
  /\ op = "sim.update"
  /\ lastPrediction = now
  /\ stream = "constant"
  /\ readingsEver = BUFFER_SIZE
  /\ totalReadings = BUFFER_SIZE
  /\ totalPredictions = 1

\* the averages of a prediction equal the samples of the constant stream
AveragesEqualInputs ==
  /\ avg.temp.num = 30 * TEMP_UNIT * avg.temp.den
  /\ avg.humid.num = 30 * HUMID_UNIT * avg.humid.den
  /\ avg.pressure.num = 96400 * PRESSURE_UNIT * avg.pressure.den
  /\ avg.lux.num = 600 * LUX_UNIT * avg.lux.den

\* C18 as stated: 15 samples of (30, 30, 96400, 600) fed to a freshly started
\* pipeline give averages equal to the inputs and scaled features that are
\* (1.0, 0.003, 0.012, 0.95) at the precision written.
C18_ScenarioAsStated ==
  FreshFullWindow =>
    /\ AveragesEqualInputs
    /\ Approx(scaledFeatures[1], 10000, 500)
    /\ Approx(scaledFeatures[2], 30, 5)
    /\ Approx(scaledFeatures[3], 120, 5)
    /\ Approx(scaledFeatures[4], 9500, 50)

\* C18 amended: 15 samples of (30, 30, 96400, 600) fed to a freshly started
\* pipeline give averages equal to the inputs and scaled features that are
\* (1.0, 0.025, 0.012, 0.95) at the precision written: the humidity feature is
\* (30 - 29.3) / 27.6.
C18_Scenario ==
  FreshFullWindow =>
    /\ AveragesEqualInputs
    /\ Approx(scaledFeatures[1], 10000, 500)
    /\ Approx(scaledFeatures[2], 250, 5)
    /\ Approx(scaledFeatures[3], 120, 5)
    /\ Approx(scaledFeatures[4], 9500, 50)

\* the scenario has run: the humidity feature is 0.0253..
C18_Witness ==
  /\ FreshFullWindow
  /\ TenThousandths(scaledFeatures[2]) = 253
  /\ scaledFeatures[1].num = scaledFeatures[1].den

\* C19: an upload call made while the link is down returns failure at once: the call
\* resolves no name, issues no HTTP request and waits for no cooldown, in
\* CloudManager::uploadData() as in SensorSimulator::uploadToCloud().
C19_NoLinkFailsFast ==
  [][/\ (op' = "uploadData" /\ ~linkUp) =>
          /\ ret' = FALSE
          /\ now' = now
          /\ cmLast'.lookups = 0
          /\ cmLast'.http = 0
          /\ cmLast'.cooldown = 0
     /\ (PredictionMade /\ wifiAvailable /\ ~linkUp) =>
          /\ successfulUploads' = successfulUploads
          /\ now' = now
          /\ simCycle'.lookups = 0
          /\ simCycle'.requests = 0
          /\ simCycle'.cooldown = 0]_vars

\* both upload routines have been called with the link down
C19_Witness ==
  /\ op = "sim.update"
  /\ lastPrediction = now
  /\ ~linkUp
  /\ simCycle.gate
  /\ simCycle.upload = "nolink"
  /\ failedUploads >= 1
  /\ cmCalls >= 1
  /\ cmLast.path = "nolink"

\* C20: when the name of the endpoint does not resolve, the upload is aborted: no
\* HTTP request is issued, the call returns failure 2000 ms later, and neither the
\* state of the connectivity manager and of the link nor the cached flags (that of
\* the primary sink, that of the simulator) are changed.
C20_DnsFailureAborts ==
  [][/\ (op' = "uploadData" /\ cmLast'.path = "dns") =>
          /\ ret' = FALSE
          /\ cmLast'.http = 0
          /\ now' = AddT(now, Ms(2000))
          /\ UNCHANGED <<cmConnected, wifiAvailable, currentStatus, linkUp>>
     /\ (PredictionMade /\ simCycle'.upload = "dns") =>
          /\ successfulUploads' = successfulUploads
          /\ failedUploads' = failedUploads + 1
          /\ simCycle'.requests = 0
          /\ now' = AddT(now, Ms(2000))
          /\ UNCHANGED <<cmConnected, wifiAvailable, currentStatus, linkUp>>]_vars

\* both upload routines have failed to resolve the name
C20_Witness ==
  /\ op = "sim.update"
  /\ lastPrediction = SubT(now, Ms(2000))
  /\ simCycle.upload = "dns"
  /\ failedUploads >= 1
  /\ cmCalls >= 1
  /\ cmLast.path = "dns"

\* the HTTP statuses of the 2xx range
SuccessStatus == 200..299

\* C21: an upload whose request was answered is reported as success exactly when the
\* status is in the 2xx range; any other status and any transport error (code not
\* positive) is reported as failure, by CloudManager::uploadData() (return value) as
\* by SensorSimulator::uploadToCloud() (successfulUploads / failedUploads).
C21_SuccessIffTwoXX ==
  [][/\ (op' = "uploadData" /\ cmLast'.path = "http") =>
          (ret' <=> cmLast'.code \in SuccessStatus)
     /\ (PredictionMade /\ simCycle'.upload = "http") =>
          IF simCycle'.code \in SuccessStatus
            THEN /\ successfulUploads' = successfulUploads + 1
                 /\ failedUploads' = failedUploads
            ELSE /\ successfulUploads' = successfulUploads
                 /\ failedUploads' = failedUploads + 1]_vars

\* update() has just taken a sample; update() has just made a prediction (the clock
\* has since moved by the cooldown of its upload only)
JustSampled ==
  /\ op = "sim.update"
  /\ totalReadings >= 1
  /\ SubT(now, lastSensorRead) =
       (IF lastPrediction = lastSensorRead THEN simCycle.cooldown ELSE 0)
JustPredicted ==
  /\ op = "sim.update"
  /\ totalPredictions >= 1
  /\ SubT(now, lastPrediction) = simCycle.cooldown

\* the first instant at or after t that the loop's clock can show while a run is on
FirstTickFrom(t) ==
  LET step == Ms(CHOOSE d \in SimTickSteps : TRUE)
  IN  IF t <= now THEN now ELSE now + ((t - now + step - 1) \div step) * step

\* the horizon of the model leaves room for the next sample, the next prediction
RoomToSample == FirstTickFrom(lastSensorRead + Ms(SENSOR_INTERVAL)) <= SimMaxClock
RoomToPredict == FirstTickFrom(lastPrediction + Ms(PREDICTION_INTERVAL)) <= SimMaxClock

\* C22: while a run is on and update() keeps being called as the clock advances
\* (here: as long as the clock can reach the next due instant), a sample is taken
\* again and a prediction is made again, whatever the sinks answer; nothing but
\* stop() ends the run.
C22_SamplingNeverStops ==
  /\ [][(isRunning /\ op' # "sim.stop") => isRunning']_vars
  /\ (isRunning /\ RoomToSample) ~> JustSampled
  /\ (isRunning /\ RoomToPredict) ~> JustPredicted

\* a second prediction is made although both uploads and a backup have failed
C22_Witness ==
  /\ JustPredicted
  /\ isRunning
  /\ totalPredictions = 2
  /\ failedUploads = 2
  /\ failedBackups >= 1

----------------------------------------------------------------------------
\* the gate of the backup sink is closed at the current clock value
GateClosed ==
  \/ ~enabled
  \/ ~initialized
  \/ BreakerOpen
  \/ SubT(now, lastBackupTime) < Ms(BACKUP_INTERVAL)

\* C23: a backupData()/backupDataWithGas() call made while the gate is closed
\* (disabled, not initialized, breaker open, or interval not elapsed) returns false,
\* issues no write and leaves lastBackupTime, totalBackups, successfulBackups,
\* failedBackups, consecutiveFailures and readingCount as they were, at every such
\* call.
C23_ClosedGateFrame ==
  [][(op' \in BackupOps /\ GateClosed) =>
       /\ ret' = FALSE
       /\ fbWrites' = {}
       /\ UNCHANGED <<lastBackupTime, totalBackups, successfulBackups, failedBackups,
                      consecutiveFailures, readingCount>>]_vars

\* a call refused by the interval alone: the sink is usable, every attempt so far
\* has succeeded, and this call returned false without becoming an attempt
C23_Witness ==
  /\ op \in BackupOps
  /\ ret = FALSE
  /\ enabled /\ initialized /\ ~BreakerOpen
  /\ SubT(now, lastBackupTime) < Ms(BACKUP_INTERVAL)
  /\ totalBackups >= 1
  /\ successfulBackups = totalBackups
  /\ readingCount = totalBackups
  /\ fbWrites = {}

----------------------------------------------------------------------------
\* the sum of a buffer once the sample v has replaced the value in slot i
SumWith(buf, i, v) == SumSeq(buf) - buf[i] + v

\* C24: in an update() call in which both the sample tick and the prediction tick
\* are due, the sample is taken and the prediction is made, and the averages of the
\* prediction are taken over a window that already holds the sample of that call.
C24_SampleBeforePrediction ==
  [][(op' = "sim.update" /\ SampleDue /\ PredictionDue) =>
       LET smp == StreamSample(stream, readingsEver + 1)
           i == bufferIndex + 1
       IN /\ totalReadings' = totalReadings + 1
          /\ totalPredictions' = totalPredictions + 1
          /\ tempBuffer'[i] = smp.temp
          /\ avg'.temp = Frac(SumWith(tempBuffer, i, smp.temp), BUFFER_SIZE)
          /\ avg'.humid = Frac(SumWith(humidBuffer, i, smp.humid), BUFFER_SIZE)
          /\ avg'.pressure = Frac(SumWith(pressureBuffer, i, smp.pressure), BUFFER_SIZE)
          /\ avg'.lux = Frac(SumWith(luxBuffer, i, smp.lux), BUFFER_SIZE)
          /\ avg'.gas = Frac(SumWith(gasBuffer, i, smp.gas), BUFFER_SIZE)]_vars

\* an update() call has taken the 15th sample of a run of distinct samples and made
\* a prediction whose average covers all 15 of them
C24_Witness ==
  /\ op = "sim.update"
  /\ stream = "ramp"
  /\ lastSensorRead = now /\ lastPrediction = now
  /\ totalPredictions >= 1
  /\ totalReadings = BUFFER_SIZE
  /\ readingsEver = BUFFER_SIZE
  /\ avg.temp = Frac(RunSum(BUFFER_SIZE, "temp"), BUFFER_SIZE)

----------------------------------------------------------------------------
\* C25: while a run is on, every prediction is made from 15 samples of the run taken
\* since the previous prediction (since start() for the first one): the run has
\* taken 15 samples per prediction made, none is made with fewer than 15 samples of
\* the run in the window, and a prediction follows the previous one of the run by
\* the prediction interval.
C25_FifteenSamplesPerPrediction ==
  [][PredictionMade =>
       /\ totalReadings' >= BUFFER_SIZE
       /\ totalReadings' = BUFFER_SIZE * totalPredictions'
       /\ totalPredictions >= 1 =>
            SubT(lastPrediction', lastPrediction) = Ms(PREDICTION_INTERVAL)]_vars

----------------------------------------------------------------------------
(* Claims about the statistics and the states of the WiFi manager          *)

\* C26: totalConnectionAttempts, successfulConnections, failedConnections and
\* totalConnectedTime never decrease, and so are never reset, in any step of
\* begin(), connect(), update(), disconnect() or setAutoReconnect(), whatever the
\* state of the manager.
C26_StatisticsMonotonic ==
  [][/\ totalConnectionAttempts' >= totalConnectionAttempts
     /\ successfulConnections' >= successfulConnections
     /\ failedConnections' >= failedConnections
     /\ totalConnectedTime' >= totalConnectedTime]_vars

\* a session that was connected for a while, was disconnected, and then failed a
\* whole connect(): all four statistics have grown and the manager is in Failed
C26_Witness ==
  /\ currentStatus = "FAILED"
  /\ totalConnectionAttempts = 2
  /\ successfulConnections = 1
  /\ failedConnections = 1
  /\ totalConnectedTime >= Ms(WIFI_CHECK_INTERVAL)

\* C27: the manager starts in Idle; it enters Failed only when a connect() call
\* returns after MAX_WIFI_RETRIES attempts that all failed, and failedConnections
\* grows by exactly 1 then and at no other step; a connect() made in Failed starts
\* again from attempt 1 with retryCount reset, makes at most MAX_WIFI_RETRIES
\* attempts, and the manager is Connected as soon as one of them finds the link.
C27_FailedAfterFiveAttempts ==
  /\ currentStatus = "IDLE"
  /\ [][/\ (currentStatus # "FAILED" /\ currentStatus' = "FAILED") =>
             /\ op' = "connect.return"
             /\ attemptsMade = MAX_WIFI_RETRIES
             /\ retryCount = MAX_WIFI_RETRIES
             /\ ~linkUp'
             /\ failedConnections' = failedConnections + 1
        /\ failedConnections' # failedConnections =>
             /\ failedConnections' = failedConnections + 1
             /\ currentStatus # "FAILED" /\ currentStatus' = "FAILED"
        /\ (currentStatus = "FAILED" /\ op' = "connect") =>
             /\ currentStatus' = "CONNECTING"
             /\ retryCount' = 1
             /\ attemptsMade' = 1
        /\ attemptsMade' <= MAX_WIFI_RETRIES
        /\ (wfPc = "attempt" /\ wfPc' # "attempt" /\ linkUp') =>
             currentStatus' = "CONNECTED"]_vars

\* a connect() made in Failed has reached Connected on its third attempt
C27_Witness ==
  /\ currentStatus = "CONNECTED"
  /\ op = "connect.return"
  /\ failedConnections = 1
  /\ totalConnectionAttempts = 2
  /\ attemptsMade = 3

----------------------------------------------------------------------------
\* C28: a write to the store (a reading, the device information or the status) is
\* issued only by an enabled manager that initialize() has marked initialized with
\* the store ready, in that initialize() call at the earliest; every write carries
\* the device ID that initialize() derived from the hardware identifier, and the
\* device ID never changes once it has been derived.
C28_WritesAfterInitialize ==
  [][/\ fbWrites' # {} =>
          /\ enabled
          /\ initialized' /\ fbConnected'
          /\ initialized \/ op' = "initialize"
          /\ \A w \in fbWrites' : w[2] = deviceID' /\ w[2] = GenerateDeviceID(mac)
     /\ deviceID # <<>> => deviceID' = deviceID
     /\ mac' = mac]_vars

\* after a second initialize() a reading is written under the ID derived at boot
C28_Witness ==
  /\ op \in BackupOps
  /\ fbInits = 2
  /\ fbWrites = {<<"readings", GenerateDeviceID(mac)>>}
  /\ Len(deviceID) = 12

----------------------------------------------------------------------------
\* some uploadData() attempt of the current uploadWithRetry() call has succeeded
SomeAttemptSucceeded == \E i \in 1..Len(cmResults) : cmResults[i]

\* C29: uploadWithRetry() makes at most 3 attempts; a successful attempt is the last
\* one of its call: the call returns true at once, with no further attempt and no
\* backoff delay after it; and the call returns true if and only if one of its
\* attempts succeeded.
C29_FirstSuccessReturns ==
  /\ Len(cmResults) <= CM_MAX_RETRIES
  /\ \A i \in 1..Len(cmResults) :
       cmResults[i] =>
         /\ i = Len(cmResults)
         /\ cmPc = "idle"
         /\ Len(cmDelays) = i - 1
  /\ op = "uploadWithRetry.return" =>
       /\ ret <=> SomeAttemptSucceeded
       /\ ret => SubT(now, cmStart) = SumSeq(cmDelays) + cmCooldown

\* the second attempt succeeded after a failed first attempt: the call returned true
\* after one backoff delay and two attempts
C29_Witness ==
  /\ op = "uploadWithRetry.return"
  /\ ret = TRUE
  /\ cmResults = <<FALSE, TRUE>>
  /\ cmDelays = <<Ms(CM_BACKOFF_BASE_MS)>>

----------------------------------------------------------------------------
\* a call has passed the gate of the backup sink: a backup attempt is made
BackupAttempted == totalBackups' = totalBackups + 1

\* C30: lastBackupTime is the clock value of the latest backup attempt, made through
\* either method and whatever its outcome: an attempt records it when it passes the
\* gate and nothing else changes it; an attempt is made only when the clock is at
\* least backupInterval past it. So two attempts are at least backupInterval apart.
C30_AttemptsSpaced ==
  [][/\ BackupAttempted =>
          /\ lastBackupTime' = now'
          /\ SubT(now', lastBackupTime) >= Ms(BACKUP_INTERVAL)
     /\ lastBackupTime' # lastBackupTime => BackupAttempted
     /\ (op' \in BackupOps /\ ~BackupAttempted) => UNCHANGED totalBackups]_vars

\* an attempt through backupDataWithGas() has failed after a successful attempt, and
\* has recorded its time
C30_Witness ==
  /\ op = "backupDataWithGas"
  /\ ret = FALSE
  /\ lastBackupTime = now
  /\ totalBackups = 2
  /\ successfulBackups = 1
  /\ failedBackups = 1
  /\ consecutiveFailures = 1

----------------------------------------------------------------------------
\* C31: connect() returns true if and only if the state of the manager is Connected
\* when it returns, also when the link was found by a retry of the same call.
C31_ReturnMatchesState ==
  op \in {"connect.return", "connect.busy"} => (ret <=> currentStatus = "CONNECTED")

\* a connect() call that got past the Connecting guard has not returned yet
ConnectInProgress == wfPc \in {"attempt", "retryDelay"}

\* C32: whenever no connect() call is in progress, successfulConnections +
\* failedConnections = totalConnectionAttempts; while one is in progress it has been
\* counted as an attempt and has no outcome yet.
C32_AttemptsAccounted ==
  /\ ~ConnectInProgress =>
       successfulConnections + failedConnections = totalConnectionAttempts
  /\ ConnectInProgress =>
       successfulConnections + failedConnections + 1 = totalConnectionAttempts

\* two connect() calls have returned, one with a success and one with a failure
C32_Witness ==
  /\ ~ConnectInProgress
  /\ op = "connect.return"
  /\ totalConnectionAttempts = 2
  /\ successfulConnections = 1
  /\ failedConnections = 1

\* C33: a step that takes the manager out of Connected, whichever operation makes
\* it, adds the time spent in Connected to totalConnectedTime, and no other step
\* changes totalConnectedTime.
C33_ConnectedTimeRecorded ==
  [][/\ (currentStatus = "CONNECTED" /\ currentStatus' # "CONNECTED") =>
          totalConnectedTime' = AddT(totalConnectedTime, SubT(now, lastConnectedTime))
     /\ totalConnectedTime' # totalConnectedTime =>
          (currentStatus = "CONNECTED" /\ currentStatus' # "CONNECTED")]_vars

----------------------------------------------------------------------------
\* C34: between calls totalBackups = successfulBackups + failedBackups, and in every
\* state consecutiveFailures is at most maxConsecutiveFailures and at most
\* failedBackups.
C34_BackupCounters ==
  /\ totalBackups = successfulBackups + failedBackups
  /\ consecutiveFailures <= MAX_FAILED_UPLOADS
  /\ consecutiveFailures <= failedBackups

\* the breaker has opened after a successful attempt and ten failed ones
C34_Witness ==
  /\ op \in BackupOps
  /\ consecutiveFailures = MAX_FAILED_UPLOADS
  /\ successfulBackups = 1
  /\ failedBackups = MAX_FAILED_UPLOADS
  /\ totalBackups = MAX_FAILED_UPLOADS + 1

----------------------------------------------------------------------------
\* C35: totalCloudUploads = successfulUploads + failedUploads after every
\* uploadToCloud() call; a call adds one to totalCloudUploads and one to exactly one
\* of the two others, on every exit path.
C35_UploadCounters ==
  /\ [](totalCloudUploads = successfulUploads + failedUploads)
  /\ [][(PredictionMade /\ simCycle'.gate) =>
          /\ totalCloudUploads' = totalCloudUploads + 1
          /\ successfulUploads' + failedUploads' = successfulUploads + failedUploads + 1
          /\ successfulUploads' >= successfulUploads
          /\ failedUploads' >= failedUploads]_vars

\* an upload stopped by name resolution has been counted after a successful one
C35_Witness ==
  /\ op = "sim.update"
  /\ simCycle.gate
  /\ simCycle.upload = "dns"
  /\ totalCloudUploads = 2
  /\ successfulUploads = 1
  /\ failedUploads = 1

----------------------------------------------------------------------------
\* C36: testConnection() returns true, and isConnected() is true after it, only if
\* the HTTP probe of that call was answered; a call whose probe got no answer
\* returns false and leaves isConnected() false, whatever earlier calls did.
C36_ProbeDecides ==
  [][op' = "testConnection" =>
       /\ ret' <=> cmLast'.ok
       /\ cmConnected' <=> cmLast'.ok]_vars

----------------------------------------------------------------------------
\* C37: after a disconnect() call the state stays Disconnected, and update() starts
\* no reconnection, until the caller invokes connect().
C37_ExplicitDisconnectStays ==
  [][(currentStatus = "DISCONNECTED" /\ disconnectedBy = "disconnect" /\ wfPc = "idle") =>
       \/ currentStatus' = "DISCONNECTED" /\ wfPc' = "idle"
       \/ op' = "connect" /\ wfCaller' = "user"]_vars

----------------------------------------------------------------------------
\* C38: with the backup disabled by configuration and initialize() done, a
\* backupData() call made at least backupInterval after the previous backup runs as
\* a simulated backup: it records lastBackupTime and counts in totalBackups, and
\* issues no write to the store.
C38_SimulatedBackup ==
  [][(/\ ~enabled
      /\ initialized
      /\ op' = "backupData"
      /\ SubT(now, lastBackupTime) >= Ms(BACKUP_INTERVAL)) =>
        /\ lastBackupTime' = now
        /\ totalBackups' = totalBackups + 1
        /\ fbWrites' = {}]_vars

----------------------------------------------------------------------------
\* the device was set up and has then been idle for almost 2^32 ms: the members
\* are as the set-up left them and the clock is about to wrap
InitWrap ==
  /\ op = "initialize"
  /\ ret = FALSE
  /\ mac \in {CHOOSE m \in Macs : TRUE}
  /\ BootWiFi
  /\ BootFirebase(SubT(WrapStart, Ms(FB_SETTLE_DELAY)), TRUE, TRUE)
  /\ InitCloud
  /\ InitSimulator("ramp")

NextWrap ==
  \/ SimStart
  \/ SimUpdate(DeliveryClasses)
  \/ WfUpdate
  \/ FbShouldBackup
  \/ BackupData
  \/ WrapTick

SpecWrap == InitWrap /\ [][NextWrap]_vars

\* time that has really passed between the clock value last and now, in the session
\* across the wrap
ReallyElapsed(last) == SinceWrapStart(now) - SinceWrapStart(last)

\* C39: in a session in which the millisecond clock wraps, each elapsed-time test
\* answers as the time really elapsed since the recorded instant demands: the sample
\* tick and the prediction tick of SensorSimulator::update(), the health check of
\* WiFiManager::update() and the interval test of shouldBackup() fire when their
\* interval has passed and do not fire before.
C39_TicksAcrossWrap ==
  [][/\ (op' = "sim.update" /\ totalReadings >= 1) =>
          (totalReadings' = totalReadings + 1
             <=> ReallyElapsed(lastSensorRead) >= Ms(SENSOR_INTERVAL))
     /\ (op' = "sim.update" /\ totalPredictions >= 1) =>
          (totalPredictions' = totalPredictions + 1
             <=> ReallyElapsed(lastPrediction) >= Ms(PREDICTION_INTERVAL))
     /\ (op' = "update" /\ lastStatusCheck # 0) =>
          (lastStatusCheck' # lastStatusCheck
             <=> ReallyElapsed(lastStatusCheck) >= Ms(WIFI_CHECK_INTERVAL))
     /\ (op' = "shouldBackup" /\ totalBackups >= 1 /\ ~BreakerOpen) =>
          (ret' <=> ReallyElapsed(lastBackupTime) >= Ms(BACKUP_INTERVAL))]_vars

\* after the wrap: a prediction has just been made whose interval began before the
\* wrap, and the last health check and the last backup attempt were made after it
\* from instants recorded before it
C39_Witness ==
  /\ op = "sim.update"
  /\ now < WrapStart
  /\ lastPrediction = now
  /\ totalPredictions >= 2
  /\ now < Ms(PREDICTION_INTERVAL)
  /\ lastStatusCheck # 0 /\ lastStatusCheck < Ms(WIFI_CHECK_INTERVAL)
  /\ totalBackups >= 2 /\ lastBackupTime < Ms(BACKUP_INTERVAL)

=============================================================================
